---- MODULE Spec2Model ----
(***************************************************************************)
(* Model of the skill-tree view (src/src/skilltree-view.ts): the           *)
(* state-propagation pass applyConnectionStateRules, the snapshot history  *)
(* (recordSnapshot / undo / redo) and the handlers that mutate the graph.  *)
(***************************************************************************)
EXTENDS Integers, Sequences, FiniteSets, TLC

(***************************************************************************)
(* Bounds of the model.                                                    *)
(***************************************************************************)
\* number of nodes of a graph drawn for the propagation pass
MaxNodes == 3
\* number of edges of a graph drawn for the propagation pass
MaxEdges == 2
\* length of a cached task list
MaxTasks == 1
\* number of edges of a graph drawn for the step-by-step ancestor traversal
WalkMaxEdges == 3
\* the view: positions on the canvas are 0..MaxPos
MaxPos == 1
\* the view: number of handler runs explored
MaxSteps == 5
\* the view: number of handler runs explored of pointer gestures, state
\* overrides and deletions alone
GestureSteps == 10
\* the view: number of handler runs explored on a loaded tree
EdgeSteps == 4
\* the view: number of edges of the loaded tree whose documents are linked
TaskEdges == 1
\* the view: number of handler runs explored around a switch of trees
TreeSteps == 4
\* the view: number of handler runs explored when trees are created,
\* deleted and imported
ForestSteps == 3
\* the canvas: number of position searches and hit tests explored
PlaceSteps == 2
\* the pointer: number of handler runs explored with every hit test
PointerSteps == 4
\* the parser: number of lines of a document
MaxLines == 4
\* the parser: number of white space characters a line starts with
MaxIndentChars == 2
\* the watcher: number of edits of the watched document
WatchSteps == 2
\* the watcher: milliseconds that pass in one step of the clock
TickMs == 50
\* the watcher: the clock stops at this many milliseconds
MaxClock == 400
\* the history: the dragged node is moved at most this far to the right
MaxRecords == 150
\* the history: undo goes at most this many snapshots back
MaxFuture == 3

\* defaultSettings(): nodeRadius
NodeRadius == 36

\* findNonOverlappingPosition: "const minMargin = 20"
MinMargin == 20

\* getNodeTasks: "const UPDATE_DEBOUNCE_MS = 150"
UPDATE_DEBOUNCE_MS == 150

\* updateNodeFromFile: "setTimeout(resolve, 100)" after a 'modify' event
ModifyWaitMs == 100

\* recordSnapshot: "if (this.historyPast.length > 100) this.historyPast.shift()"
HistoryLimit == 100

(***************************************************************************)
(* Values.                                                                 *)
(***************************************************************************)
\* "null" of an edge endpoint / of an optional field; node ids are >= 1
NULL == 0

Complete == "complete"
InProgress == "in-progress"
Unavailable == "unavailable"
NodeStates == {Complete, InProgress, Unavailable}

\* values of node.fileLink: none, or the path of the one document of the model
NoLink == "undefined"

Note == "note.md"

\* values of the number node.exp, written as JavaScript prints them: the
\* default 10, a number that is not finite (NaN, Infinity), and null
DefaultExp == "10"

NonFinite == "Infinity"

JsonNull == "null"

\* a SkillNode: id, state, position (x stands for the (x, y) pair) and exp
Node(i, s, px) ==
  [id |-> i, state |-> s, x |-> px, exp |-> DefaultExp, fileLink |-> NoLink]

\* a SkillEdge: id, from (child) and to (parent)
Edge(i, f, t) == [id |-> i, from |-> f, to |-> t]

VARIABLES
  nodes,          \* this.nodes: sequence of SkillNode
  edges,          \* this.edges: sequence of SkillEdge
  tasksCache,     \* this._tasksCache: node id -> sequence of task.completed
  trees,          \* this.settings.trees: tree name -> [nodes, edges]
  currentTreeName, \* this.settings.currentTreeName
  shared,         \* the objects of this.nodes are those of the stored array
                  \* settings.trees[currentTreeName].nodes
  fileWatchers,   \* this._fileWatchers: node id -> the node object its watcher
                  \* holds: Live (the one of this.nodes) or the state of a
                  \* node object that is no longer in this.nodes
  passes,         \* number of propagation passes applied so far
  before,         \* this.nodes as they were before the last pass
  edgeIdx,        \* Rule 3: index of the edge the for-loop is at
  callStack,      \* Rule 3: the frames of markAncestorsUnavailable in progress
  visited,        \* Rule 3: the visited set of the traversal in progress
  visitCount,     \* Rule 3: how often the traversal in progress got past the
                  \* visited check, per node id
  historyPast,    \* this.historyPast: sequence of snapshots
  historyFuture,  \* this.historyFuture: sequence of snapshots
  dragStart,      \* this._dragStart: NoDrag or [nodeId, x]
  creatingEdgeFrom,      \* this.creatingEdgeFrom: NULL or the id of the node
  draggingEdgeEndpoint,  \* this.draggingEdgeEndpoint: NoEndpoint or [edgeId, which]
  selectedNodeId, \* this.selectedNodeId: NULL or a node id
  edgesChanged,   \* onOpen's "let edgesChanged"
  buttonDown,     \* the left mouse button is held down
  nextId,         \* the next value of Date.now() + Math.random()
  steps,          \* number of handler runs left to explore
  run,            \* HistorySpec: recordSnapshot calls since the last undo or redo
  lastOp,         \* the handler that ran last
  pre,            \* (nodes, edges) when the current user action started
  interleaved,    \* another handler ran inside the current user action
  phase,          \* what happened since the last recordSnapshot()
  recPre,         \* (nodes, edges) at the last recordSnapshot()
  post,           \* (nodes, edges) just before the last undo()
  imported,       \* the nodes and edges of the payload, if the handler that
                  \* ran last was an import that stored it
  nodeRadii,      \* this.nodeRadii: node id -> radius
  pointer,        \* the world coordinate the last pointer event was at
  returned,       \* what the last position search or hit test returned
  renaming,       \* the call of changeNodeId that is waiting for a document
                  \* to be written: NoRename or [oldId, newId]
  preLens,        \* the lengths of historyPast and historyFuture when the
                  \* current user action started
  selectedTask,   \* this.selectedTask: NoTask or [nodeId, taskIndex]
  isPanning,      \* onOpen's "let isPanning"
  under,          \* what the hit tests of the last mousedown had under the
                  \* pointer
  document,       \* the lines of the linked document
  fileTasks,      \* what getTasksFromFile returned last
  clock,          \* Date.now(), in steps of TickMs
  lastUpdateTime, \* the watcher's "let lastUpdateTime"
  handlers        \* the calls of updateNodeFromFile that are waiting

graphVars == <<nodes, edges, tasksCache>>
passVars == <<passes, before>>
walkVars == <<edgeIdx, callStack, visited, visitCount>>
historyVars == <<historyPast, historyFuture>>
gestureVars == <<dragStart, creatingEdgeFrom, draggingEdgeEndpoint,
                 selectedNodeId, edgesChanged, buttonDown, nextId>>
traceVars == <<steps, run, lastOp, pre, interleaved, phase, recPre, post,
               imported, preLens>>
viewVars == <<historyVars, gestureVars, traceVars>>
hitVars == <<nodeRadii, pointer, returned>>
settingsVars == <<trees, currentTreeName, shared>>
markVars == <<selectedTask, isPanning, under>>
docVars == <<document, fileTasks>>
watchVars == <<clock, lastUpdateTime, handlers>>
sideVars == <<markVars, docVars, watchVars>>
vars == <<graphVars, fileWatchers, settingsVars, passVars, walkVars, viewVars,
          hitVars, renaming, sideVars>>

(***************************************************************************)
(* Helpers over the node and edge arrays.                                  *)
(***************************************************************************)
NodeIdsOf(ns) == {ns[i].id : i \in 1..Len(ns)}

\* idToNode.get(id): the node object with this id (the last one set wins)
NodeIdx(ns, id) == CHOOSE i \in 1..Len(ns) :
                     /\ ns[i].id = id
                     /\ \A j \in 1..Len(ns) : ns[j].id = id => j <= i

StateOf(ns, id) == ns[NodeIdx(ns, id)].state

\* node.state = s on the node object idToNode.get(id)
SetState(ns, id, s) == [ns EXCEPT ![NodeIdx(ns, id)].state = s]

\* this._tasksCache.get(id) || []
TasksOf(tc, id) == IF id \in DOMAIN tc THEN tc[id] ELSE <<>>

\* hasTasks && tasks.every(task => task.completed)
AllTasksComplete(tc, id) ==
  LET tasks == TasksOf(tc, id)
  IN  Len(tasks) > 0 /\ \A k \in 1..Len(tasks) : tasks[k]

\* the edge contributes to parentsMap / childrenMap
LinksNodes(ns, e) ==
  /\ e.from # NULL /\ e.to # NULL
  /\ e.from \in NodeIdsOf(ns) /\ e.to \in NodeIdsOf(ns)

\* SelectSeq with a two-argument test
RECURSIVE FilterEdges(_, _, _)
FilterEdges(ns, es, id) ==
  IF es = <<>> THEN <<>>
  ELSE LET e == Head(es)
           rest == FilterEdges(ns, Tail(es), id)
       IN  IF LinksNodes(ns, e) /\ e.to = id THEN <<e.from>> \o rest ELSE rest

\* childrenMap.get(id) || []: ids of the nodes that point to id, in edge order
childrenMap(ns, es, id) == FilterEdges(ns, es, id)

RECURSIVE FilterParents(_, _, _)
FilterParents(ns, es, id) ==
  IF es = <<>> THEN <<>>
  ELSE LET e == Head(es)
           rest == FilterParents(ns, Tail(es), id)
       IN  IF LinksNodes(ns, e) /\ e.from = id THEN <<e.to>> \o rest ELSE rest

\* parentsMap.get(id) || []: ids of the nodes id points to, in edge order
parentsMap(ns, es, id) == FilterParents(ns, es, id)

\* this.edges.some(ee => ee.from === n.id || ee.to === n.id)
hasAnyConnection(es, id) ==
  \E k \in 1..Len(es) : es[k].from = id \/ es[k].to = id

(***************************************************************************)
(* applyConnectionStateRules.                                              *)
(***************************************************************************)
\* mutant of Rule1Node: an orphan's tasks are not consulted
Rule1Node_IgnoresTasks(ns, es, tc, i) ==
  LET n == ns[i]
  IN  IF ~hasAnyConnection(es, n.id) /\ Len(childrenMap(ns, es, n.id)) = 0
         /\ n.state # Complete
      THEN [ns EXCEPT ![i].state = Unavailable]
      ELSE ns

\* mutant of Rule1Node: an orphan whose tasks are not all complete is reset
\* to in-progress, the default state of a node
Rule1Node_ResetsToInProgress(ns, es, tc, i) ==
  LET n == ns[i]
  IN  IF ~hasAnyConnection(es, n.id) /\ Len(childrenMap(ns, es, n.id)) = 0
      THEN IF AllTasksComplete(tc, n.id) THEN [ns EXCEPT ![i].state = Complete]
           ELSE IF n.state # Complete THEN [ns EXCEPT ![i].state = InProgress]
           ELSE ns
      ELSE ns

\* Rule 1 / Rule 2, the body of the loop for the node at index i
Rule1Node(ns, es, tc, i) ==
  LET n == ns[i]
  IN  IF ~hasAnyConnection(es, n.id) /\ Len(childrenMap(ns, es, n.id)) = 0
      THEN IF AllTasksComplete(tc, n.id) THEN [ns EXCEPT ![i].state = Complete]
           ELSE IF n.state # Complete THEN [ns EXCEPT ![i].state = Unavailable]
           ELSE ns
      ELSE ns

RECURSIVE Rule1From(_, _, _, _)
Rule1From(ns, es, tc, i) ==
  IF i > Len(ns) THEN ns
  ELSE Rule1From(Rule1Node(ns, es, tc, i), es, tc, i + 1)

\* Rule 1: the loop over this.nodes
Rule1(ns, es, tc) == Rule1From(ns, es, tc, 1)

\* mutant of MarkNode: the ancestor is locked even when it is complete
MarkNode_DemotesComplete(ns, nodeId) ==
  IF nodeId \in NodeIdsOf(ns) THEN SetState(ns, nodeId, Unavailable) ELSE ns

\* markAncestorsUnavailable, the write to the visited node:
\* if (node) { if (node.state !== 'complete') node.state = 'unavailable' }
MarkNode(ns, nodeId) ==
  IF nodeId \in NodeIdsOf(ns) /\ StateOf(ns, nodeId) # Complete
  THEN SetState(ns, nodeId, Unavailable)
  ELSE ns

\* markAncestorsUnavailable(nodeId, visited); acc = [ns, visited], both of
\* which the recursion shares and mutates
RECURSIVE markAncestorsUnavailable(_, _, _)
RECURSIVE MarkParents(_, _, _, _)
markAncestorsUnavailable(es, nodeId, acc) ==
  IF nodeId \in acc.visited THEN acc
  ELSE LET acc1 == [ns |-> MarkNode(acc.ns, nodeId),
                    visited |-> acc.visited \cup {nodeId}]
       IN  MarkParents(es, parentsMap(acc.ns, es, nodeId), 1, acc1)

MarkParents(es, parents, k, acc) ==
  IF k > Len(parents) THEN acc
  ELSE MarkParents(es, parents, k + 1,
                   markAncestorsUnavailable(es, parents[k], acc))

\* mutant of Rule3Edge: the child of an edge is left as it is
Rule3Edge_SkipsChild(ns, es, ee) ==
  IF ee.from # NULL /\ ee.to # NULL /\ ee.to \in NodeIdsOf(ns)
  THEN markAncestorsUnavailable(es, ee.to, [ns |-> ns, visited |-> {}]).ns
  ELSE ns

\* Rule 3, the body of the loop for one edge
Rule3Edge(ns, es, ee) ==
  IF ee.from # NULL /\ ee.to # NULL
  THEN LET ns1 == IF ee.from \in NodeIdsOf(ns) /\ StateOf(ns, ee.from) # Complete
                  THEN SetState(ns, ee.from, InProgress)
                  ELSE ns
       IN  IF ee.to \in NodeIdsOf(ns)
           THEN markAncestorsUnavailable(es, ee.to, [ns |-> ns1, visited |-> {}]).ns
           ELSE ns1
  ELSE ns

RECURSIVE Rule3From(_, _, _)
Rule3From(ns, es, k) ==
  IF k > Len(es) THEN ns
  ELSE Rule3From(Rule3Edge(ns, es, es[k]), es, k + 1)

\* Rule 3: the loop over this.edges
Rule3(ns, es) == Rule3From(ns, es, 1)

\* mutant of Rule4Node: a node whose children are not all complete is left
\* as Rule 3 left it
Rule4Node_OnlyPromotes(ns, es, i) ==
  LET n == ns[i]
      children == childrenMap(ns, es, n.id)
  IN  IF Len(children) > 0 /\ n.state # Complete
         /\ \A c \in 1..Len(children) : StateOf(ns, children[c]) = Complete
      THEN [ns EXCEPT ![i].state = InProgress]
      ELSE ns

\* mutant of Rule4Node: a node whose children are all complete is promoted
\* to complete
Rule4Node_PromotesToComplete(ns, es, i) ==
  LET n == ns[i]
      children == childrenMap(ns, es, n.id)
  IN  IF Len(children) > 0
      THEN IF \A c \in 1..Len(children) : StateOf(ns, children[c]) = Complete
           THEN [ns EXCEPT ![i].state = Complete]
           ELSE IF n.state # Complete THEN [ns EXCEPT ![i].state = Unavailable]
                ELSE ns
      ELSE ns

\* mutant of Rule4Node: the override for a node whose children are all
\* complete is missing
Rule4Node_NoOverride(ns, es, i) ==
  LET n == ns[i]
      children == childrenMap(ns, es, n.id)
  IN  IF Len(children) > 0 /\ n.state # Complete
         /\ ~(\A c \in 1..Len(children) : StateOf(ns, children[c]) = Complete)
      THEN [ns EXCEPT ![i].state = Unavailable]
      ELSE ns

\* Rule 4, the body of the loop for the node at index i
Rule4Node(ns, es, i) ==
  LET n == ns[i]
      children == childrenMap(ns, es, n.id)
  IN  IF Len(children) > 0
      THEN IF \A c \in 1..Len(children) : StateOf(ns, children[c]) = Complete
           THEN IF n.state # Complete THEN [ns EXCEPT ![i].state = InProgress]
                ELSE ns
           ELSE IF n.state # Complete THEN [ns EXCEPT ![i].state = Unavailable]
                ELSE ns
      ELSE ns

RECURSIVE Rule4From(_, _, _)
Rule4From(ns, es, i) ==
  IF i > Len(ns) THEN ns
  ELSE Rule4From(Rule4Node(ns, es, i), es, i + 1)

\* Rule 4: the loop over this.nodes
Rule4(ns, es) == Rule4From(ns, es, 1)

applyConnectionStateRules(ns, es, tc) == Rule4(Rule3(Rule1(ns, es, tc), es), es)

(***************************************************************************)
(* History: getSnapshot, applySnapshot, recordSnapshot, undo, redo.        *)
(***************************************************************************)
\* JSON.parse(JSON.stringify(v)) of a number: JSON.stringify writes a number
\* that is not finite as null
JsonNumber(v) == IF v = NonFinite THEN JsonNull ELSE v

\* JSON.parse(JSON.stringify(ns)): a fresh array of fresh objects that carry
\* the fields of the nodes
CloneNodes(ns) ==
  [i \in 1..Len(ns) |-> [id |-> ns[i].id, state |-> ns[i].state, x |-> ns[i].x,
                         exp |-> JsonNumber(ns[i].exp),
                         fileLink |-> ns[i].fileLink]]

\* JSON.parse(JSON.stringify(es))
CloneEdges(es) ==
  [k \in 1..Len(es) |-> [id |-> es[k].id, from |-> es[k].from, to |-> es[k].to]]

getSnapshot(ns, es) == [nodes |-> CloneNodes(ns), edges |-> CloneEdges(es)]

\* applySnapshot(snap): the graph the view holds afterwards
applySnapshot(snap) == [nodes |-> CloneNodes(snap.nodes), edges |-> CloneEdges(snap.edges)]

\* mutant of PastAfterRecord: a full stack drops the snapshot just pushed
PastAfterRecord_DropsNewest(past, ns, es) ==
  LET pushed == Append(past, getSnapshot(ns, es))
  IN  IF Len(pushed) > HistoryLimit THEN past ELSE pushed

\* recordSnapshot(): historyPast afterwards (historyFuture becomes [])
PastAfterRecord(past, ns, es) ==
  LET pushed == Append(past, getSnapshot(ns, es))
  IN  IF Len(pushed) > HistoryLimit THEN Tail(pushed) ELSE pushed

\* this._dragStart === null
NoDrag == [nodeId |-> NULL, x |-> 0]

\* this.draggingEdgeEndpoint === null
NoEndpoint == [edgeId |-> NULL, which |-> "none"]

\* no nodes and no edges
NoGraph == [nodes |-> <<>>, edges |-> <<>>]

\* a watcher whose closure holds the node object that is in this.nodes
Live == "live"

\* the watchers once the node objects with the ids in gone have left
\* this.nodes: a watcher keeps the object it was created with, in the state
\* the object had
DetachWatchers(fw, ns, gone) ==
  [id \in DOMAIN fw |->
     IF fw[id] = Live /\ id \in gone /\ id \in NodeIdsOf(ns)
     THEN StateOf(ns, id)
     ELSE fw[id]]

\* a map with the value v at the key id
Put(map, id, v) ==
  [k \in DOMAIN map \cup {id} |-> IF k = id THEN v ELSE map[k]]

\* the names of the trees of the model: the one of new settings and another
DefaultTree == "default"

OtherTree == "other"

TreeNames == {DefaultTree, OtherTree}

\* saveNodes(): the entry of the current tree gets deep copies of this.nodes
\* and this.edges
saveNodes(ts, name, ns, es) == Put(ts, name, getSnapshot(ns, es))

\* the settings once onOpen has opened the view for the first time: the
\* default tree is stored empty, and this.nodes is a new array of default
\* nodes
OpenedNew ==
  /\ trees = Put(<<>>, DefaultTree, NoGraph)
  /\ currentTreeName = DefaultTree
  /\ shared = FALSE

Last(q) == q[Len(q)]

Front(q) == SubSeq(q, 1, Len(q) - 1)

\* undo() when historyPast is not empty: the stacks and the graph afterwards
undo(past, future, ns, es) ==
  LET cur == getSnapshot(ns, es)
      prev == Last(past)
      now == applySnapshot(prev)
  IN  [past |-> Front(past), future |-> Append(future, cur),
       nodes |-> now.nodes, edges |-> now.edges]

\* redo() when historyFuture is not empty: the stacks and the graph afterwards
redo(past, future, ns, es) ==
  LET cur == getSnapshot(ns, es)
      next == Last(future)
      now == applySnapshot(next)
  IN  [past |-> Append(past, cur), future |-> Front(future),
       nodes |-> now.nodes, edges |-> now.edges]

\* no call of changeNodeId is waiting
NoRename == [oldId |-> NULL, newId |-> NULL]

\* no radius has been measured, no pointer event has been handled
HitIdle == nodeRadii = <<>> /\ pointer = NULL /\ returned = NULL

\* this.selectedTask === null
NoTask == [nodeId |-> NULL, taskIndex |-> 0]

\* nothing lay under the pointer
NoHits ==
  [taskCheckbox |-> FALSE, taskNode |-> NoTask, edgeEndpoint |-> NoEndpoint,
   edgeBody |-> NoEndpoint, checkbox |-> NULL, handle |-> NULL, node |-> NULL,
   shiftKey |-> FALSE]

\* no task marker is selected, no document is watched
SideIdle ==
  /\ selectedTask = NoTask /\ isPanning = FALSE /\ under = NoHits
  /\ document = <<>> /\ fileTasks = <<>>
  /\ clock = 0 /\ lastUpdateTime = 0 /\ handlers = <<>>

\* the view outside the specification of the handlers: no history, no gesture
ViewIdle ==
  /\ historyPast = <<>> /\ historyFuture = <<>>
  /\ dragStart = NoDrag /\ creatingEdgeFrom = NULL /\ draggingEdgeEndpoint = NoEndpoint
  /\ selectedNodeId = NULL /\ edgesChanged = FALSE /\ buttonDown = FALSE
  /\ nextId = 0
  /\ steps = 0 /\ run = 0
  /\ lastOp = "none" /\ pre = NoGraph /\ interleaved = FALSE
  /\ phase = "none" /\ recPre = NoGraph /\ post = NoGraph
  /\ imported = NoGraph /\ preLens = <<0, 0>>
  /\ HitIdle
  /\ renaming = NoRename
  /\ SideIdle

(***************************************************************************)
(* RulesSpec: the propagation pass applied to any graph and task snapshot. *)
(***************************************************************************)
\* ids of the nodes of a drawn graph
GraphIds == 1..MaxNodes
\* an id that matches no node of a drawn graph (a dangling reference)
MissingId == MaxNodes + 1
\* what an edge endpoint of a drawn graph can hold
EndpointValues == GraphIds \cup {NULL, MissingId}

\* the sequences over S of length at most n
RECURSIVE SeqsUpTo(_, _)
SeqsUpTo(S, n) ==
  IF n = 0 THEN {<<>>}
  ELSE LET shorter == SeqsUpTo(S, n - 1)
       IN  shorter \cup {Append(s, x) : s \in {t \in shorter : Len(t) = n - 1}, x \in S}

TaskLists == SeqsUpTo(BOOLEAN, MaxTasks)

\* the edge lists of a drawn graph; an edge's id is its creation rank
EdgeLists ==
  LET pairs == SeqsUpTo(EndpointValues \X EndpointValues, MaxEdges)
  IN  {[k \in 1..Len(p) |-> Edge(k, p[k][1], p[k][2])] : p \in pairs}

RulesInit ==
  /\ \E st \in [GraphIds -> NodeStates] :
       nodes = [i \in GraphIds |-> Node(i, st[i], 0)]
  /\ edges \in EdgeLists
  /\ tasksCache \in [GraphIds -> TaskLists]
  /\ passes = 0
  /\ before = <<>>
  /\ edgeIdx = 0 /\ callStack = <<>> /\ visited = {} /\ visitCount = <<>>
  /\ fileWatchers = <<>>
  /\ OpenedNew
  /\ ViewIdle

\* one call of applyConnectionStateRules()
ApplyRules ==
  /\ passes < 2
  /\ nodes' = applyConnectionStateRules(nodes, edges, tasksCache)
  /\ before' = nodes
  /\ passes' = passes + 1
  /\ UNCHANGED <<edges, tasksCache, walkVars, hitVars, renaming, sideVars, fileWatchers, viewVars>>
  /\ UNCHANGED settingsVars

RulesNext == ApplyRules

RulesSpec == RulesInit /\ [][RulesNext]_vars

\* C1: a second pass in a row leaves every node as the first pass left it
C1_Idempotent == passes = 2 => nodes = before

C1_Witness ==
  /\ passes = 2
  /\ Len(edges) = 2
  /\ \E i \in 1..Len(nodes) : nodes[i].state = InProgress
  /\ \E i \in 1..Len(nodes) : nodes[i].state = Unavailable

\* the edge list is exactly a -> b and b -> c, in either order
IsChain(a, b, c) ==
  /\ Cardinality({a, b, c}) = 3
  /\ Len(edges) = 2
  /\ {<<edges[1].from, edges[1].to>>, <<edges[2].from, edges[2].to>>}
       = {<<a, b>>, <<b, c>>}

\* the state a node that was already complete keeps, else s
KeepComplete(id, s) == IF StateOf(before, id) = Complete THEN Complete ELSE s

\* C2 as stated: with edges A->B and B->C only, after the pass A is InProgress
\* and B and C are Unavailable, except that B or C stays Complete if it was
C2_AncestorLockAsStated ==
  passes >= 1 =>
    \A a \in GraphIds, b \in GraphIds, c \in GraphIds :
      IsChain(a, b, c) =>
        /\ StateOf(nodes, a) = InProgress
        /\ StateOf(nodes, b) = KeepComplete(b, Unavailable)
        /\ StateOf(nodes, c) = KeepComplete(c, Unavailable)

\* C2 amended: with edges A->B and B->C only, after the pass each of A, B, C
\* that was Complete is still Complete; otherwise A is InProgress, B is
\* InProgress if A is Complete and Unavailable if not, and C is InProgress if
\* B is Complete and Unavailable if not
C2_AncestorLock ==
  passes >= 1 =>
    \A a \in GraphIds, b \in GraphIds, c \in GraphIds :
      IsChain(a, b, c) =>
        /\ StateOf(nodes, a) = KeepComplete(a, InProgress)
        /\ StateOf(nodes, b) =
             KeepComplete(b, IF StateOf(before, a) = Complete
                             THEN InProgress ELSE Unavailable)
        /\ StateOf(nodes, c) =
             KeepComplete(c, IF StateOf(before, b) = Complete
                             THEN InProgress ELSE Unavailable)

C2_Witness ==
  /\ passes = 1
  /\ \E a \in GraphIds, b \in GraphIds, c \in GraphIds :
       /\ IsChain(a, b, c)
       /\ StateOf(before, a) = Unavailable /\ StateOf(nodes, a) = InProgress
       /\ StateOf(before, b) = InProgress /\ StateOf(nodes, b) = Unavailable
       /\ StateOf(before, c) = InProgress /\ StateOf(nodes, c) = Unavailable

\* the node has at least one child and all its children are complete
AllChildrenComplete(ns, es, id) ==
  LET children == childrenMap(ns, es, id)
  IN  /\ Len(children) > 0
      /\ \A c \in 1..Len(children) : StateOf(ns, children[c]) = Complete

\* C3: after the pass a node with at least one child and only complete
\* children is InProgress, or Complete if it was Complete before the pass;
\* the pass never promotes it to Complete
C3_AllChildrenCompletePromotion ==
  passes >= 1 =>
    \A i \in 1..Len(nodes) :
      AllChildrenComplete(nodes, edges, nodes[i].id) =>
        nodes[i].state = KeepComplete(nodes[i].id, InProgress)

C3_Witness ==
  /\ passes = 1
  /\ \E i \in 1..Len(nodes) :
       /\ Len(childrenMap(nodes, edges, nodes[i].id)) = 2
       /\ Cardinality({edges[k].from : k \in 1..Len(edges)}) = 2
       /\ AllChildrenComplete(nodes, edges, nodes[i].id)
       /\ before[i].state = Unavailable
       /\ nodes[i].state = InProgress

\* C4: a node with zero edges and a non-empty task list with every task
\* completed is Complete after the pass, whatever its state before
C4_OrphanCompletion ==
  passes >= 1 =>
    \A i \in 1..Len(nodes) :
      (~hasAnyConnection(edges, nodes[i].id)
         /\ AllTasksComplete(tasksCache, nodes[i].id))
        => nodes[i].state = Complete

C4_Witness ==
  /\ passes = 1
  /\ \E i \in 1..Len(nodes) :
       /\ ~hasAnyConnection(edges, nodes[i].id)
       /\ AllTasksComplete(tasksCache, nodes[i].id)
       /\ before[i].state = Unavailable
       /\ nodes[i].state = Complete

\* the cached task list of the node holds a task that is not completed
HasIncompleteTask(tc, id) ==
  \E k \in 1..Len(TasksOf(tc, id)) : ~TasksOf(tc, id)[k]

\* C5 as stated: a node with zero edges and an incomplete task is
\* Unavailable after the pass
C5_OrphanIncompleteAsStated ==
  passes >= 1 =>
    \A i \in 1..Len(nodes) :
      (~hasAnyConnection(edges, nodes[i].id)
         /\ HasIncompleteTask(tasksCache, nodes[i].id))
        => nodes[i].state = Unavailable

\* C5 amended: a node with zero edges and an incomplete task is Unavailable
\* after the pass unless it was Complete before the pass, and then it is
\* still Complete
C5_OrphanIncomplete ==
  passes >= 1 =>
    \A i \in 1..Len(nodes) :
      (~hasAnyConnection(edges, nodes[i].id)
         /\ HasIncompleteTask(tasksCache, nodes[i].id))
        => nodes[i].state = KeepComplete(nodes[i].id, Unavailable)

C5_Witness ==
  /\ passes = 1
  /\ \E i \in 1..Len(nodes) :
       /\ ~hasAnyConnection(edges, nodes[i].id)
       /\ HasIncompleteTask(tasksCache, nodes[i].id)
       /\ before[i].state = InProgress
       /\ nodes[i].state = Unavailable

\* C6: every node that is Complete before the pass is Complete after it
C6_NeverDemotesComplete ==
  passes >= 1 =>
    \A i \in 1..Len(nodes) :
      before[i].state = Complete => nodes[i].state = Complete

\* a complete node on a two-node cycle, which the ancestor traversal reaches
C6_Witness ==
  /\ passes = 1
  /\ \E i \in 1..Len(nodes), k \in 1..Len(edges), l \in 1..Len(edges) :
       /\ edges[k].to = nodes[i].id /\ edges[l].from = nodes[i].id
       /\ edges[k].from = edges[l].to /\ edges[k].from # nodes[i].id
       /\ edges[k].from \in GraphIds
       /\ before[i].state = Complete
       /\ nodes[i].state = Complete

(***************************************************************************)
(* WalkSpec: Rule 3 of the pass, one loop iteration and one call of        *)
(* markAncestorsUnavailable at a time.                                     *)
(***************************************************************************)
\* a frame of markAncestorsUnavailable: at its entry, or in its loop over
\* the parents with j the index of the next parent
Frame(id, at, idx) == [nodeId |-> id, pc |-> at, j |-> idx]

WalkEdgeLists ==
  LET pairs == SeqsUpTo(GraphIds \X GraphIds, WalkMaxEdges)
  IN  {[k \in 1..Len(p) |-> Edge(k, p[k][1], p[k][2])] : p \in pairs}

WalkInit ==
  /\ \E st \in [GraphIds -> NodeStates] :
       nodes = [i \in GraphIds |-> Node(i, st[i], 0)]
  /\ edges \in WalkEdgeLists
  /\ tasksCache = [i \in GraphIds |-> <<>>]
  /\ passes = 0
  /\ before = nodes
  /\ edgeIdx = 1
  /\ callStack = <<>>
  /\ visited = {}
  /\ visitCount = [i \in GraphIds |-> 0]
  /\ fileWatchers = <<>>
  /\ OpenedNew
  /\ ViewIdle

Top == callStack[Len(callStack)]
Pop == SubSeq(callStack, 1, Len(callStack) - 1)

\* one iteration of "for (const ee of this.edges)": the write to the child
\* and the call markAncestorsUnavailable(parentNode.id, new Set())
WalkEdge ==
  /\ passes = 0 /\ callStack = <<>> /\ edgeIdx <= Len(edges)
  /\ LET ee == edges[edgeIdx]
     IN  IF ee.from # NULL /\ ee.to # NULL
         THEN /\ nodes' = IF ee.from \in NodeIdsOf(nodes)
                              /\ StateOf(nodes, ee.from) # Complete
                           THEN SetState(nodes, ee.from, InProgress)
                           ELSE nodes
              /\ IF ee.to \in NodeIdsOf(nodes)
                 THEN /\ callStack' = <<Frame(ee.to, "enter", 0)>>
                      /\ visited' = {}
                      /\ visitCount' = [i \in DOMAIN visitCount |-> 0]
                 ELSE UNCHANGED <<callStack, visited, visitCount>>
         ELSE UNCHANGED <<nodes, callStack, visited, visitCount>>
  /\ edgeIdx' = edgeIdx + 1
  /\ UNCHANGED <<edges, tasksCache, passVars, viewVars, hitVars, renaming, sideVars, fileWatchers>>
  /\ UNCHANGED settingsVars

\* mutant of WalkEnter: the visited check is missing
WalkEnter_NoVisitedCheck ==
  /\ callStack # <<>> /\ Top.pc = "enter"
  /\ visited' = visited \cup {Top.nodeId}
  /\ visitCount' = [visitCount EXCEPT ![Top.nodeId] = @ + 1]
  /\ nodes' = MarkNode(nodes, Top.nodeId)
  /\ callStack' = [callStack EXCEPT ![Len(callStack)] = Frame(Top.nodeId, "loop", 1)]
  /\ UNCHANGED <<edges, tasksCache, passVars, edgeIdx, viewVars, hitVars, renaming, sideVars, fileWatchers>>
  /\ UNCHANGED settingsVars

\* entry of markAncestorsUnavailable: the visited check, visited.add and the
\* write to the node
WalkEnter ==
  /\ callStack # <<>> /\ Top.pc = "enter"
  /\ IF Top.nodeId \in visited
     THEN /\ callStack' = Pop
          /\ UNCHANGED <<nodes, visited, visitCount>>
     ELSE /\ visited' = visited \cup {Top.nodeId}
          /\ visitCount' = [visitCount EXCEPT ![Top.nodeId] = @ + 1]
          /\ nodes' = MarkNode(nodes, Top.nodeId)
          /\ callStack' = [callStack EXCEPT ![Len(callStack)] =
                             Frame(Top.nodeId, "loop", 1)]
  /\ UNCHANGED <<edges, tasksCache, passVars, edgeIdx, viewVars, hitVars, renaming, sideVars, fileWatchers>>
  /\ UNCHANGED settingsVars

\* "for (const parent of parents)": the recursive call for the next parent
WalkCallParent ==
  /\ callStack # <<>> /\ Top.pc = "loop"
  /\ LET parents == parentsMap(nodes, edges, Top.nodeId)
     IN  /\ Top.j <= Len(parents)
         /\ callStack' = Append([callStack EXCEPT ![Len(callStack)].j = @ + 1],
                                Frame(parents[Top.j], "enter", 0))
  /\ UNCHANGED <<graphVars, passVars, edgeIdx, visited, visitCount, viewVars, hitVars, renaming, sideVars, fileWatchers>>
  /\ UNCHANGED settingsVars

\* the loop over the parents is exhausted: markAncestorsUnavailable returns
WalkReturn ==
  /\ callStack # <<>> /\ Top.pc = "loop"
  /\ Top.j > Len(parentsMap(nodes, edges, Top.nodeId))
  /\ callStack' = Pop
  /\ UNCHANGED <<graphVars, passVars, edgeIdx, visited, visitCount, viewVars, hitVars, renaming, sideVars, fileWatchers>>
  /\ UNCHANGED settingsVars

\* the loop over the edges is exhausted: Rule 3 is done
WalkFinish ==
  /\ passes = 0 /\ callStack = <<>> /\ edgeIdx > Len(edges)
  /\ passes' = 1
  /\ UNCHANGED <<graphVars, before, walkVars, hitVars, renaming, sideVars, fileWatchers, viewVars>>
  /\ UNCHANGED settingsVars

WalkNext == WalkEdge \/ WalkEnter \/ WalkCallParent \/ WalkReturn \/ WalkFinish

\* the pass is one synchronous call: once started it runs until it returns
WalkSpec == WalkInit /\ [][WalkNext]_vars /\ WF_vars(WalkNext)

\* the step-by-step Rule 3 computes what Rule3 computes
WalkAgreesWithRule3 == passes = 1 => nodes = Rule3(before, edges)

\* a traversal gets past the visited check at most once per node, and the
\* recursion is never deeper than one frame per node plus the rejected call
VisitsAtMostOnce ==
  /\ \A id \in DOMAIN visitCount : visitCount[id] <= 1
  /\ Len(callStack) <= Cardinality(NodeIdsOf(nodes)) + 1

\* C7: on every edge set, cycles included, each ancestor traversal visits a
\* node at most once and the loop over the edges runs to its end
C7_Terminates == []VisitsAtMostOnce /\ <>(passes = 1)

\* Rule 3 has finished on the cycle 1 -> 2 -> 3 -> 1, whose last traversal
\* visited each of the three nodes once
C7_Witness ==
  /\ passes = 1
  /\ Len(edges) = 3
  /\ \E a \in GraphIds, b \in GraphIds, c \in GraphIds :
       /\ Cardinality({a, b, c}) = 3
       /\ <<edges[1].from, edges[1].to>> = <<a, b>>
       /\ <<edges[2].from, edges[2].to>> = <<b, c>>
       /\ <<edges[3].from, edges[3].to>> = <<c, a>>
  /\ \A id \in GraphIds : visitCount[id] = 1

(***************************************************************************)
(* Spec: the view and its handlers.  Hit tests are inputs: the handler is  *)
(* told what lies under the pointer.  Orbiting task markers, panning, the  *)
(* sides of an edge and the persisted copy of the tree are left out.       *)
(***************************************************************************)
Positions == 0..MaxPos

\* the values of skilltree-node-exp that pass typeof fileExp === 'number'
FileExps == {DefaultExp, NonFinite}

Graph == [nodes |-> nodes, edges |-> edges]

\* the settings once loadNodes has loaded a stored tree: this.nodes and
\* this.edges are the stored arrays themselves
OpenedStored ==
  /\ trees = Put(<<>>, DefaultTree, Graph)
  /\ currentTreeName = DefaultTree
  /\ shared = TRUE

\* this.nodes.find(n => n.id === id): index of the first match, 0 if none
FindNode(ns, id) ==
  IF id \in NodeIdsOf(ns)
  THEN CHOOSE i \in 1..Len(ns) :
         ns[i].id = id /\ \A j \in 1..(i - 1) : ns[j].id # id
  ELSE 0

\* this.edges.find(ee => ee.id === id): index of the first match, 0 if none
FindEdge(es, id) ==
  IF \E k \in 1..Len(es) : es[k].id = id
  THEN CHOOSE k \in 1..Len(es) :
         es[k].id = id /\ \A l \in 1..(k - 1) : es[l].id # id
  ELSE 0

\* this.edges.filter(ee => ee.id !== id)
EdgesWithout(es, id) ==
  LET Keep(ee) == ee.id # id
  IN  SelectSeq(es, Keep)

\* mutant of EdgesNotTouching: only the edges that start at the node go
EdgesNotTouching_OnlyFrom(es, id) ==
  LET Keep(e) == e.from # id
  IN  SelectSeq(es, Keep)

\* this.edges.filter(e => e.from !== id && e.to !== id)
EdgesNotTouching(es, id) ==
  LET Keep(e) == e.from # id /\ e.to # id
  IN  SelectSeq(es, Keep)

\* this.nodes.filter(n => n.id !== id)
NodesWithout(ns, id) ==
  LET Keep(n) == n.id # id
  IN  SelectSeq(ns, Keep)

\* defaultNodes(): what onOpen puts on the canvas of a new, empty tree
defaultNodes == <<Node(1, Unavailable, 0), Node(2, Unavailable, 0)>>

\* addNode(x, y)
addNode(ns, id, px) == Append(ns, Node(id, Unavailable, px))

\* mutant of checkOrphanedNode: the node is made Unavailable whether or not
\* an edge still starts or ends at it
checkOrphanedNode_IgnoresEdges(ns, es, nodeId) ==
  IF nodeId = NULL THEN ns
  ELSE IF FindNode(ns, nodeId) # 0
       THEN [ns EXCEPT ![FindNode(ns, nodeId)].state = Unavailable]
       ELSE ns

\* mutant of checkOrphanedNode: a Complete node is left as it is
checkOrphanedNode_KeepsComplete(ns, es, nodeId) ==
  IF nodeId = NULL THEN ns
  ELSE IF /\ ~\E k \in 1..Len(es) : es[k].to = nodeId
          /\ ~\E k \in 1..Len(es) : es[k].from = nodeId
          /\ FindNode(ns, nodeId) # 0
          /\ ns[FindNode(ns, nodeId)].state # Complete
       THEN [ns EXCEPT ![FindNode(ns, nodeId)].state = Unavailable]
       ELSE ns

\* checkOrphanedNode / checkNode of the mouseup handler
checkOrphanedNode(ns, es, nodeId) ==
  IF nodeId = NULL THEN ns
  ELSE IF /\ ~\E k \in 1..Len(es) : es[k].to = nodeId
          /\ ~\E k \in 1..Len(es) : es[k].from = nodeId
          /\ FindNode(ns, nodeId) # 0
       THEN [ns EXCEPT ![FindNode(ns, nodeId)].state = Unavailable]
       ELSE ns

\* mutant of EndpointRelease: a re-route is not compared with the other edges
EndpointRelease_NoDuplicateCheck(ns, es, tc, de, t) ==
  LET k == FindEdge(es, de.edgeId)
      same == [nodes |-> ns, edges |-> es, recorded |-> FALSE]
  IN  IF k = 0 THEN same
      ELSE LET edge == es[k]
               otherNodeId == IF de.which = "from" THEN edge.to ELSE edge.from
               originalNodeId == IF de.which = "from" THEN edge.from ELSE edge.to
               newFrom == IF de.which = "from" THEN t ELSE otherNodeId
               newTo == IF de.which = "from" THEN otherNodeId ELSE t
           IN  IF t # NULL
               THEN IF t # otherNodeId
                    THEN LET es1 == [es EXCEPT ![k] = Edge(edge.id, newFrom, newTo)]
                             ns1 == checkOrphanedNode(ns, es1, originalNodeId)
                         IN  [nodes |-> applyConnectionStateRules(ns1, es1, tc),
                              edges |-> es1, recorded |-> TRUE]
                    ELSE same
               ELSE LET es1 == EdgesWithout(es, edge.id)
                        ns1 == checkOrphanedNode(ns, es1, edge.from)
                        ns2 == checkOrphanedNode(ns1, es1, edge.to)
                    IN  [nodes |-> applyConnectionStateRules(ns2, es1, tc),
                         edges |-> es1, recorded |-> TRUE]

\* mouseup, "finish dragging an edge endpoint": de is draggingEdgeEndpoint and
\* t the node under the pointer (NULL over empty canvas).  recorded tells
\* whether recordSnapshot() was called, which is also when edgesChanged is set
EndpointRelease(ns, es, tc, de, t) ==
  LET k == FindEdge(es, de.edgeId)
      same == [nodes |-> ns, edges |-> es, recorded |-> FALSE]
  IN  IF k = 0 THEN same
      ELSE LET edge == es[k]
               otherNodeId == IF de.which = "from" THEN edge.to ELSE edge.from
               originalNodeId == IF de.which = "from" THEN edge.from ELSE edge.to
               newFrom == IF de.which = "from" THEN t ELSE otherNodeId
               newTo == IF de.which = "from" THEN otherNodeId ELSE t
           IN  IF t # NULL
               THEN IF /\ t # otherNodeId
                       /\ ~\E l \in 1..Len(es) :
                            es[l].id # edge.id /\ es[l].from = newFrom /\ es[l].to = newTo
                    THEN LET es1 == [es EXCEPT ![k] = Edge(edge.id, newFrom, newTo)]
                             ns1 == checkOrphanedNode(ns, es1, originalNodeId)
                         IN  [nodes |-> applyConnectionStateRules(ns1, es1, tc),
                              edges |-> es1, recorded |-> TRUE]
                    ELSE same
               ELSE LET es1 == EdgesWithout(es, edge.id)
                        ns1 == checkOrphanedNode(ns, es1, edge.from)
                        ns2 == checkOrphanedNode(ns1, es1, edge.to)
                    IN  [nodes |-> applyConnectionStateRules(ns2, es1, tc),
                         edges |-> es1, recorded |-> TRUE]

\* mutant of EdgeCreate: the target is not compared with the source node
EdgeCreate_AllowsSelfLoop(ns, es, from, t, id) ==
  IF /\ t # NULL
     /\ ~\E l \in 1..Len(es) : es[l].from = from /\ es[l].to = t
  THEN [nodes |-> ns, edges |-> Append(es, Edge(id, from, t)), recorded |-> TRUE]
  ELSE [nodes |-> ns, edges |-> es, recorded |-> FALSE]

\* mouseup, edge creation: from is creatingEdgeFrom.id, t the node under
\* tempEdgeTarget (NULL over empty canvas), id the id of the new edge
EdgeCreate(ns, es, from, t, id) ==
  IF /\ t # NULL /\ t # from
     /\ ~\E l \in 1..Len(es) : es[l].from = from /\ es[l].to = t
  THEN [nodes |-> ns, edges |-> Append(es, Edge(id, from, t)), recorded |-> TRUE]
  ELSE [nodes |-> ns, edges |-> es, recorded |-> FALSE]

Init ==
  /\ nodes = defaultNodes
  /\ edges = <<>>
  /\ tasksCache = <<>>
  /\ passes = 0 /\ before = <<>>
  /\ edgeIdx = 0 /\ callStack = <<>> /\ visited = {} /\ visitCount = <<>>
  /\ fileWatchers = <<>>
  /\ OpenedNew
  /\ historyPast = <<>> /\ historyFuture = <<>>
  /\ dragStart = NoDrag /\ creatingEdgeFrom = NULL /\ draggingEdgeEndpoint = NoEndpoint
  /\ selectedNodeId = NULL /\ edgesChanged = FALSE /\ buttonDown = FALSE
  /\ nextId = 3
  /\ steps = MaxSteps /\ run = 0
  /\ lastOp = "open" /\ pre = Graph /\ interleaved = FALSE
  /\ phase = "none" /\ recPre = Graph /\ post = Graph
  /\ imported = NoGraph /\ preLens = <<0, 0>>
  /\ HitIdle
  /\ renaming = NoRename
  /\ SideIdle

\* the handler starts a user action
CanStep == steps > 0

Step(op) ==
  steps' = steps - 1 /\ lastOp' = op /\ run' = run /\ imported' = NoGraph

StartAction(op) ==
  /\ Step(op) /\ pre' = Graph /\ interleaved' = buttonDown
  /\ preLens' = <<Len(historyPast), Len(historyFuture)>>
\* the handler goes on with the user action a mousedown started
ContinueAction(op) == Step(op) /\ UNCHANGED <<pre, interleaved, preLens>>
\* the handler is no part of a user action on the graph
Interrupt(op) ==
  /\ Step(op) /\ pre' = pre /\ interleaved' = (interleaved \/ buttonDown)
  /\ preLens' = preLens

\* recordSnapshot() is called with the view holding (ns, es)
\* mutant of Record: the future stack is kept
Record_KeepsFuture(ns, es) ==
  /\ historyPast' = PastAfterRecord(historyPast, ns, es)
  /\ historyFuture' = historyFuture
  /\ phase' = "recorded"
  /\ recPre' = [nodes |-> ns, edges |-> es]
  /\ post' = post

Record(ns, es) ==
  /\ historyPast' = PastAfterRecord(historyPast, ns, es)
  /\ historyFuture' = <<>>
  /\ phase' = "recorded"
  /\ recPre' = [nodes |-> ns, edges |-> es]
  /\ post' = post

\* the handler calls neither recordSnapshot() nor undo() nor redo()
NoRecord ==
  /\ UNCHANGED <<historyVars, recPre, post>>
  /\ phase' = IF phase = "recorded" \/ Graph' = Graph THEN phase ELSE "other"

\* the handler ends with saveNodes()
Save ==
  /\ trees' = saveNodes(trees, currentTreeName, nodes', edges')
  /\ shared' = FALSE
  /\ currentTreeName' = currentTreeName

\* the handler neither saves nor writes a field of a node
NoSave == UNCHANGED settingsVars

\* the stored nodes when the handler has written fields of node objects and
\* has not saved: a stored node that is the object of this.nodes has the
\* new fields
WrittenInPlace(stored, ns) ==
  [k \in 1..Len(stored) |->
     IF FindNode(ns, stored[k].id) # 0
     THEN ns[FindNode(ns, stored[k].id)]
     ELSE stored[k]]

\* the handler moves a node and does not save
MovedInPlace ==
  /\ trees' = IF shared
              THEN [trees EXCEPT ![currentTreeName].nodes =
                      WrittenInPlace(trees[currentTreeName].nodes, nodes')]
              ELSE trees
  /\ UNCHANGED <<currentTreeName, shared>>

\* mousedown on an endpoint or on the body of the edge at index k
MouseDownEdge(k, which) ==
  /\ CanStep
  /\ ~buttonDown
  /\ k \in 1..Len(edges)
  /\ FindNode(nodes, edges[k][which]) # 0
  /\ draggingEdgeEndpoint' = [edgeId |-> edges[k].id, which |-> which]
  /\ selectedNodeId' = NULL
  /\ buttonDown' = TRUE
  /\ Record(nodes, edges)
  /\ StartAction("mousedown")
  /\ UNCHANGED <<graphVars, passVars, walkVars, hitVars, renaming, sideVars, fileWatchers, dragStart, creatingEdgeFrom,
                 edgesChanged, nextId>>
  /\ NoSave

\* mousedown on the checkbox of the node at index i, which is drawn for an
\* in-progress node without tasks
MouseDownCheckbox(i) ==
  /\ CanStep
  /\ ~buttonDown
  /\ i \in 1..Len(nodes)
  /\ nodes[i].state = InProgress /\ Len(TasksOf(tasksCache, nodes[i].id)) = 0
  /\ nodes' = applyConnectionStateRules([nodes EXCEPT ![i].state = Complete],
                                        edges, tasksCache)
  /\ selectedNodeId' = NULL
  /\ buttonDown' = TRUE
  /\ Record(nodes, edges)
  /\ StartAction("mousedown")
  /\ UNCHANGED <<edges, tasksCache, passVars, walkVars, hitVars, renaming, sideVars, fileWatchers, dragStart,
                 creatingEdgeFrom, draggingEdgeEndpoint, edgesChanged, nextId>>
  /\ Save

\* mousedown on a connection handle of the node at index i, or on its body
\* with Shift held
MouseDownHandle(i) ==
  /\ CanStep
  /\ ~buttonDown
  /\ i \in 1..Len(nodes)
  /\ selectedNodeId' = nodes[i].id
  /\ creatingEdgeFrom' = nodes[i].id
  /\ buttonDown' = TRUE
  /\ Record(nodes, edges)
  /\ StartAction("mousedown")
  /\ UNCHANGED <<graphVars, passVars, walkVars, hitVars, renaming, sideVars, fileWatchers, dragStart, draggingEdgeEndpoint,
                 edgesChanged, nextId>>
  /\ NoSave

\* mousedown on the body of the node at index i
MouseDownNode(i) ==
  /\ CanStep
  /\ ~buttonDown
  /\ i \in 1..Len(nodes)
  /\ selectedNodeId' = nodes[i].id
  /\ dragStart' = [nodeId |-> nodes[i].id, x |-> nodes[i].x]
  /\ buttonDown' = TRUE
  /\ Record(nodes, edges)
  /\ StartAction("mousedown")
  /\ UNCHANGED <<graphVars, passVars, walkVars, hitVars, renaming, sideVars, fileWatchers, creatingEdgeFrom,
                 draggingEdgeEndpoint, edgesChanged, nextId>>
  /\ NoSave

\* mousedown on empty canvas
MouseDownEmpty ==
  /\ CanStep
  /\ ~buttonDown
  /\ selectedNodeId' = NULL
  /\ buttonDown' = TRUE
  /\ StartAction("mousedown")
  /\ UNCHANGED <<graphVars, passVars, walkVars, hitVars, renaming, sideVars, fileWatchers, dragStart, creatingEdgeFrom,
                 draggingEdgeEndpoint, edgesChanged, nextId>>
  /\ NoRecord
  /\ NoSave

\* mousemove while a node is dragged: the node follows the pointer to px
MouseMoveDrag(px) ==
  /\ CanStep
  /\ dragStart # NoDrag
  /\ FindNode(nodes, dragStart.nodeId) # 0
  /\ px \in Positions
  /\ nodes[FindNode(nodes, dragStart.nodeId)].x # px
  /\ nodes' = [nodes EXCEPT ![FindNode(nodes, dragStart.nodeId)].x = px]
  /\ ContinueAction("mousemove")
  /\ UNCHANGED <<edges, tasksCache, passVars, walkVars, hitVars, renaming, sideVars, fileWatchers, gestureVars>>
  /\ NoRecord
  /\ MovedInPlace

\* the release at t asks for a self-loop or for a second edge with the same
\* from and to: the conditions under which the mouseup handler neither
\* re-routes the dragged endpoint de nor creates an edge from the node from
Rejected(es, de, from, t) ==
  \/ /\ de # NoEndpoint /\ FindEdge(es, de.edgeId) # 0 /\ t # NULL
     /\ LET edge == es[FindEdge(es, de.edgeId)]
            otherNodeId == IF de.which = "from" THEN edge.to ELSE edge.from
            newFrom == IF de.which = "from" THEN t ELSE otherNodeId
            newTo == IF de.which = "from" THEN otherNodeId ELSE t
        IN  \/ t = otherNodeId
            \/ \E l \in 1..Len(es) :
                 es[l].id # edge.id /\ es[l].from = newFrom /\ es[l].to = newTo
  \/ /\ de = NoEndpoint /\ from # NULL /\ t # NULL
     /\ \/ t = from
        \/ \E l \in 1..Len(es) : es[l].from = from /\ es[l].to = t

\* getTaskCheckboxAtWorld(x, y): sel is this.selectedTask, inBounds tells
\* whether (x, y) lies within the bounds of the check box that is drawn on
\* the marker of the selected task (taskIndex counts from 1 here)
getTaskCheckboxAtWorld(ns, tc, sel, inBounds) ==
  /\ sel # NoTask
  /\ FindNode(ns, sel.nodeId) # 0
  /\ sel.taskIndex \in 1..Len(TasksOf(tc, sel.nodeId))
  /\ inBounds

\* the task list once completeAllTasksInNote has ticked every task of the
\* document and read the document again
AllTicked(tl) == [k \in 1..Len(tl) |-> TRUE]

\* mouseup with the node t under the pointer (NULL over empty canvas);
\* onCheckbox tells whether the pointer is within the bounds of the check box
\* of the selected task's marker, onTask is the task marker under the pointer
\* (NoTask when there is none)
MouseUpAt(t, onCheckbox, onTask) ==
  /\ CanStep
  /\ buttonDown
  /\ t \in NodeIdsOf(nodes) \cup {NULL}
  /\ LET moved == /\ dragStart # NoDrag
                  /\ FindNode(nodes, dragStart.nodeId) # 0
                  /\ nodes[FindNode(nodes, dragStart.nodeId)].x # dragStart.x
         a == IF draggingEdgeEndpoint # NoEndpoint
              THEN EndpointRelease(nodes, edges, tasksCache, draggingEdgeEndpoint, t)
              ELSE [nodes |-> nodes, edges |-> edges, recorded |-> FALSE]
         b == IF creatingEdgeFrom # NULL
              THEN EdgeCreate(a.nodes, a.edges, creatingEdgeFrom, t, nextId)
              ELSE [nodes |-> a.nodes, edges |-> a.edges, recorded |-> FALSE]
         pastA == IF a.recorded THEN PastAfterRecord(historyPast, nodes, edges)
                  ELSE historyPast
         pastB == IF b.recorded THEN PastAfterRecord(pastA, a.nodes, a.edges)
                  ELSE pastA
         changed == edgesChanged \/ a.recorded \/ b.recorded
         checkboxHit == getTaskCheckboxAtWorld(b.nodes, tasksCache, selectedTask,
                                               onCheckbox)
         ticked == Put(tasksCache, selectedTask.nodeId,
                       AllTicked(TasksOf(tasksCache, selectedTask.nodeId)))
         completes == checkboxHit /\ StateOf(b.nodes, selectedTask.nodeId) # Complete
         \* the tree as the last saveNodes() before the early return stored it
         savedEarlier ==
           IF a.recorded THEN saveNodes(trees, currentTreeName, a.nodes, a.edges)
           ELSE IF moved THEN saveNodes(trees, currentTreeName, nodes, edges)
           ELSE IF shared
                THEN [trees EXCEPT ![currentTreeName].nodes =
                        WrittenInPlace(@, b.nodes),
                                   ![currentTreeName].edges = b.edges]
                ELSE trees
     IN  /\ edgesChanged' = changed
         /\ nextId' = IF b.recorded THEN nextId + 1 ELSE nextId
         /\ edges' = b.edges
         /\ IF checkboxHit
            THEN \* completeAllTasksInNote, then "return"
                 /\ tasksCache' = ticked
                 /\ nodes' = IF completes
                             THEN applyConnectionStateRules(
                                    SetState(b.nodes, selectedTask.nodeId, Complete),
                                    b.edges, ticked)
                             ELSE b.nodes
                 /\ IF completes
                    THEN Save
                    ELSE /\ trees' = savedEarlier
                         /\ shared' = (shared /\ ~a.recorded /\ ~moved)
                         /\ currentTreeName' = currentTreeName
                 /\ UNCHANGED <<dragStart, creatingEdgeFrom, draggingEdgeEndpoint,
                                isPanning, selectedTask, selectedNodeId>>
                 /\ ContinueAction("mouseupTaskCheckbox")
            ELSE IF onTask # NoTask
            THEN \* the task is selected, then "return"
                 /\ selectedTask' = onTask
                 /\ selectedNodeId' = onTask.nodeId
                 /\ nodes' = b.nodes
                 /\ trees' = savedEarlier
                 /\ shared' = (shared /\ ~a.recorded /\ ~moved)
                 /\ currentTreeName' = currentTreeName
                 /\ UNCHANGED <<tasksCache, dragStart, creatingEdgeFrom,
                                draggingEdgeEndpoint, isPanning>>
                 /\ ContinueAction("mouseupTask")
            ELSE /\ nodes' = IF changed
                             THEN applyConnectionStateRules(b.nodes, b.edges, tasksCache)
                             ELSE b.nodes
                 /\ dragStart' = NoDrag /\ creatingEdgeFrom' = NULL
                 /\ draggingEdgeEndpoint' = NoEndpoint
                 /\ isPanning' = FALSE
                 /\ UNCHANGED <<tasksCache, selectedTask, selectedNodeId>>
                 /\ ContinueAction(
                      IF Rejected(edges, draggingEdgeEndpoint, creatingEdgeFrom, t)
                      THEN "mouseupRejected" ELSE "mouseup")
                 /\ Save
         /\ historyPast' = pastB
         /\ IF a.recorded \/ b.recorded
            THEN /\ historyFuture' = <<>>
                 /\ phase' = "recorded"
                 /\ recPre' = IF b.recorded
                              THEN [nodes |-> a.nodes, edges |-> a.edges]
                              ELSE Graph
                 /\ post' = post
            ELSE /\ UNCHANGED <<historyFuture, recPre, post>>
                 /\ phase' = IF phase = "recorded" \/ Graph' = Graph
                             THEN phase ELSE "other"
  /\ buttonDown' = FALSE
  /\ under' = NoHits
  /\ UNCHANGED <<passVars, walkVars, hitVars, renaming, docVars, watchVars,
                 fileWatchers>>

\* mouseup with the node t under the pointer (NULL over empty canvas) and no
\* task marker there
MouseUp(t) == MouseUpAt(t, FALSE, NoTask)

\* the toolbar's Add Node button: the node appears at the centre of the view
AddButton(px) ==
  /\ CanStep
  /\ ~buttonDown
  /\ px \in Positions
  /\ nodes' = addNode(nodes, nextId, px)
  /\ nextId' = nextId + 1
  /\ Record(nodes, edges)
  /\ StartAction("addButton")
  /\ UNCHANGED <<edges, tasksCache, passVars, walkVars, hitVars, renaming, sideVars, fileWatchers, dragStart,
                 creatingEdgeFrom, draggingEdgeEndpoint, selectedNodeId,
                 edgesChanged, buttonDown>>
  /\ Save

\* dblclick on empty canvas at px
DblClickEmpty(px) ==
  /\ CanStep
  /\ ~buttonDown
  /\ px \in Positions
  /\ nodes' = addNode(nodes, nextId, px)
  /\ nextId' = nextId + 1
  /\ StartAction("dblclick")
  /\ UNCHANGED <<edges, tasksCache, passVars, walkVars, hitVars, renaming, sideVars, fileWatchers, dragStart,
                 creatingEdgeFrom, draggingEdgeEndpoint, selectedNodeId,
                 edgesChanged, buttonDown>>
  /\ NoRecord
  /\ Save

\* Delete or Backspace with a node selected: deleteNode(node, false)
DeleteKey ==
  /\ CanStep
  /\ selectedNodeId # NULL
  /\ FindNode(nodes, selectedNodeId) # 0
  /\ nodes' = NodesWithout(nodes, selectedNodeId)
  /\ edges' = EdgesNotTouching(edges, selectedNodeId)
  /\ selectedNodeId' = NULL
  /\ Record(nodes, edges)
  /\ fileWatchers' = DetachWatchers(fileWatchers, nodes, {selectedNodeId})
  /\ StartAction("deleteKey")
  /\ UNCHANGED <<tasksCache, passVars, walkVars, hitVars, renaming, sideVars, dragStart, creatingEdgeFrom,
                 draggingEdgeEndpoint, edgesChanged, buttonDown, nextId>>
  /\ NoSave

\* the state selector of the editor of the node at index i, which is offered
\* when the node is not unavailable, changed to sel
StateSelect(i, sel) ==
  /\ CanStep
  /\ ~buttonDown
  /\ i \in 1..Len(nodes)
  /\ nodes[i].state # Unavailable
  /\ sel \in {Complete, InProgress} /\ sel # nodes[i].state
  /\ nodes' = applyConnectionStateRules([nodes EXCEPT ![i].state = sel],
                                        edges, tasksCache)
  /\ Record(nodes, edges)
  /\ StartAction("stateSelect")
  /\ UNCHANGED <<edges, tasksCache, passVars, walkVars, hitVars, renaming, sideVars, fileWatchers, gestureVars>>
  /\ Save

\* the Open File button of the editor of the node at index i, whose linked
\* document exists and carries the number fileExp as skilltree-node-exp (a
\* document without one gives the default)
OpenLinkedFile(i, fileExp) ==
  /\ CanStep
  /\ ~buttonDown
  /\ i \in 1..Len(nodes)
  /\ fileExp \in FileExps /\ fileExp # nodes[i].exp
  /\ nodes' = [nodes EXCEPT ![i].fileLink = Note, ![i].exp = fileExp]
  /\ Record(nodes, edges)
  /\ StartAction("openFile")
  /\ UNCHANGED <<edges, tasksCache, passVars, walkVars, hitVars, renaming, sideVars, fileWatchers, gestureVars>>
  /\ Save

\* updateNodeStateFromTasks(node) for a node object in state held
CompletedByTasks(tc, id, held) == AllTasksComplete(tc, id) /\ held # Complete

\* the file link field of the editor of the node at index i, which had no
\* linked document yet, is set to a document that holds the tasks tl and no
\* skilltree-node-exp, which gives the default: getNodeTasks loads the tasks
\* and creates the watcher of the node
LinkFile(i, tl) ==
  /\ CanStep
  /\ ~buttonDown
  /\ i \in 1..Len(nodes) /\ nodes[i].fileLink = NoLink
  /\ tl \in TaskLists
  /\ tasksCache' = Put(tasksCache, nodes[i].id, tl)
  /\ fileWatchers' = Put(fileWatchers, nodes[i].id, Live)
  /\ LET linked == [nodes EXCEPT ![i].fileLink = Note, ![i].exp = DefaultExp]
     IN  nodes' = IF CompletedByTasks(tasksCache', nodes[i].id, nodes[i].state)
                  THEN applyConnectionStateRules(
                         [linked EXCEPT ![i].state = Complete], edges, tasksCache')
                  ELSE linked
  /\ Record(nodes, edges)
  /\ StartAction("linkFile")
  /\ UNCHANGED <<edges, passVars, walkVars, hitVars, renaming, sideVars, gestureVars>>
  /\ Save

\* node.id as the watcher registered under id reads it: the watcher holds
\* the node object, which carries the new id while changeNodeId is waiting
WatchedId(id) ==
  IF fileWatchers[id] = Live /\ id = renaming.oldId THEN renaming.newId ELSE id

\* the watcher of the node id fires because its document now holds the
\* tasks tl and the number fileExp: updateNodeFromFile replaces the cache
\* entry, writes exp and runs updateNodeStateFromTasks on the node object
\* the watcher was created with
LoadTasks(id, tl, fileExp) ==
  /\ CanStep
  /\ id \in DOMAIN fileWatchers
  /\ tl \in TaskLists /\ tl # TasksOf(tasksCache, WatchedId(id))
  /\ fileExp \in FileExps
  /\ tasksCache' = Put(tasksCache, WatchedId(id), tl)
  /\ LET live == fileWatchers[id] = Live
         i == FindNode(nodes, WatchedId(id))
         held == IF live THEN nodes[i].state ELSE fileWatchers[id]
         completes == CompletedByTasks(tasksCache', WatchedId(id), held)
         written == IF live THEN [nodes EXCEPT ![i].exp = fileExp] ELSE nodes
     IN  /\ nodes' = IF completes
                     THEN applyConnectionStateRules(
                            IF live THEN [written EXCEPT ![i].state = Complete]
                                    ELSE written,
                            edges, tasksCache')
                     ELSE written
         /\ fileWatchers' = IF completes /\ ~live
                            THEN [fileWatchers EXCEPT ![id] = Complete]
                            ELSE fileWatchers
  /\ Interrupt("loadTasks")
  /\ UNCHANGED <<edges, passVars, walkVars, hitVars, renaming, sideVars, gestureVars>>
  /\ NoRecord
  /\ Save

\* undo() with a snapshot to go back to (Ctrl+Z or the Undo button)
Undo ==
  /\ CanStep
  /\ Len(historyPast) > 0
  /\ LET u == undo(historyPast, historyFuture, nodes, edges)
     IN  /\ historyPast' = u.past
         /\ historyFuture' = u.future
         /\ nodes' = u.nodes
         /\ edges' = u.edges
  /\ phase' = IF phase = "recorded" THEN "undone" ELSE "other"
  /\ post' = Graph
  /\ fileWatchers' = DetachWatchers(fileWatchers, nodes, NodeIdsOf(nodes))
  /\ Interrupt("undo")
  /\ UNCHANGED <<tasksCache, passVars, walkVars, hitVars, renaming, sideVars, gestureVars, recPre>>
  /\ Save

\* redo() with a snapshot to go forward to (Ctrl+Y or the Redo button)
Redo ==
  /\ CanStep
  /\ Len(historyFuture) > 0
  /\ LET r == redo(historyPast, historyFuture, nodes, edges)
     IN  /\ historyPast' = r.past
         /\ historyFuture' = r.future
         /\ nodes' = r.nodes
         /\ edges' = r.edges
  /\ phase' = IF phase = "undone" THEN "redone" ELSE "other"
  /\ fileWatchers' = DetachWatchers(fileWatchers, nodes, NodeIdsOf(nodes))
  /\ Interrupt("redo")
  /\ UNCHANGED <<tasksCache, passVars, walkVars, hitVars, renaming, sideVars, gestureVars, recPre, post>>
  /\ Save

Next ==
  \/ \E k \in 1..Len(edges), which \in {"from", "to"} : MouseDownEdge(k, which)
  \/ \E i \in 1..Len(nodes) : MouseDownCheckbox(i)
  \/ \E i \in 1..Len(nodes) : MouseDownHandle(i)
  \/ \E i \in 1..Len(nodes) : MouseDownNode(i)
  \/ MouseDownEmpty
  \/ \E px \in Positions : MouseMoveDrag(px)
  \/ \E t \in NodeIdsOf(nodes) \cup {NULL} : MouseUp(t)
  \/ \E px \in Positions : AddButton(px)
  \/ \E px \in Positions : DblClickEmpty(px)
  \/ DeleteKey
  \/ \E i \in 1..Len(nodes), sel \in NodeStates : StateSelect(i, sel)
  \/ \E i \in 1..Len(nodes), fileExp \in FileExps : OpenLinkedFile(i, fileExp)
  \/ \E i \in 1..Len(nodes), tl \in TaskLists : LinkFile(i, tl)
  \/ \E id \in DOMAIN fileWatchers, tl \in TaskLists, fileExp \in FileExps :
       LoadTasks(id, tl, fileExp)
  \/ Undo
  \/ Redo

Spec == Init /\ [][Next]_vars

\* C8: after recordSnapshot(), mutations and then undo() the view holds the
\* nodes and edges it held at the recordSnapshot(); after a redo() right
\* after that undo() it holds those it held just before the undo()
C8_UndoRedoRoundTrip ==
  /\ phase = "undone" => Graph = recPre
  /\ phase = "redone" => Graph = post

CompletedActions ==
  {"addButton", "dblclick", "mouseup", "mouseupRejected", "deleteKey",
   "stateSelect", "openFile", "linkFile"}

\* C9: when a user action has changed the nodes or edges, the top of the past
\* stack is a snapshot of the nodes and edges the action started from, so one
\* undo() restores them
C9_RecordBeforeMutation ==
  (lastOp \in CompletedActions /\ ~interleaved /\ Graph # pre)
    => (Len(historyPast) > 0 /\ applySnapshot(Last(historyPast)) = pre)

\* C11: right after a recordSnapshot the future stack is empty and stays so
\* until the next undo, so that redo does nothing; an undo only moves the
\* current state onto the future stack and takes the last snapshot off the
\* past stack, and a redo does the converse: applying a snapshot neither
\* pushes onto the past stack nor clears the future stack
C11_RecordInvalidatesRedo ==
  [][/\ phase' = "recorded" => historyFuture' = <<>>
     /\ (steps' # steps /\ lastOp' = "undo")
          => /\ historyPast' = Front(historyPast)
             /\ Len(historyFuture') = Len(historyFuture) + 1
             /\ Front(historyFuture') = historyFuture
     /\ (steps' # steps /\ lastOp' = "redo")
          => /\ historyFuture' = Front(historyFuture)
             /\ Len(historyPast') = Len(historyPast) + 1
             /\ Front(historyPast') = historyPast]_vars

\* a recorded action, an undo, and a second recorded action that has emptied
\* the future stack the undo had filled
C11_Witness ==
  /\ steps = MaxSteps - 3
  /\ phase = "recorded"
  /\ post # NoGraph
  /\ historyFuture = <<>>
  /\ Len(historyPast) > 0

\* C38: between handlers every key of the task cache and of the watcher
\* registry is the id of a node of the active tree
C38_CachesOnlyForPresentNodes ==
  /\ DOMAIN tasksCache \subseteq NodeIdsOf(nodes)
  /\ DOMAIN fileWatchers \subseteq NodeIdsOf(nodes)

\* a node that had a linked document has been deleted, and the cache entry
\* and the watcher of its id are still there
C38_Witness ==
  /\ lastOp = "deleteKey"
  /\ \E id \in DOMAIN tasksCache \cap DOMAIN fileWatchers :
       /\ id \notin NodeIdsOf(nodes)
       /\ id \in NodeIdsOf(pre.nodes)

\* the stacks and the graph of the view, as one value
HistoryState ==
  [past |-> historyPast, future |-> historyFuture, nodes |-> nodes, edges |-> edges]

\* undo() called in the state h: nothing happens when historyPast is empty
undoCall(h) ==
  IF Len(h.past) = 0 THEN h ELSE undo(h.past, h.future, h.nodes, h.edges)

\* redo() called in the state h: nothing happens when historyFuture is empty
redoCall(h) ==
  IF Len(h.future) = 0 THEN h ELSE redo(h.past, h.future, h.nodes, h.edges)

\* the number of snapshots the two stacks hold
SnapshotsHeld(h) == Len(h.past) + Len(h.future)

\* C34: in every state with a past stack that is not empty, undo() and then
\* redo() give back the same nodes, edges, past stack and future stack;
\* undo() and redo() keep the number of snapshots held; undo() with an empty
\* past stack and redo() with an empty future stack change nothing
C34_UndoRedoInverse ==
  /\ Len(historyPast) > 0 => redoCall(undoCall(HistoryState)) = HistoryState
  /\ SnapshotsHeld(undoCall(HistoryState)) = SnapshotsHeld(HistoryState)
  /\ SnapshotsHeld(redoCall(HistoryState)) = SnapshotsHeld(HistoryState)
  /\ Len(historyPast) = 0 => undoCall(HistoryState) = HistoryState
  /\ Len(historyFuture) = 0 => redoCall(HistoryState) = HistoryState

\* the same statement without the nodes: the stacks and the edges do come back
C34_StacksAndEdgesComeBack ==
  LET h == HistoryState
      r == redoCall(undoCall(h))
  IN  /\ Len(historyPast) > 0 =>
           r.past = h.past /\ r.future = h.future /\ r.edges = h.edges
      /\ SnapshotsHeld(undoCall(h)) = SnapshotsHeld(h)
      /\ SnapshotsHeld(redoCall(h)) = SnapshotsHeld(h)

\* a state with a recorded snapshot in which a node holds an exp that is not
\* finite: undo() and then redo() would give the node back with exp null
C34_Witness ==
  /\ Len(historyPast) > 0
  /\ \E i \in 1..Len(nodes) :
       /\ nodes[i].exp = NonFinite
       /\ redoCall(undoCall(HistoryState)).nodes[i].exp = JsonNull
  /\ redoCall(undoCall(HistoryState)).past = historyPast

(***************************************************************************)
(* EdgeSpec: edge creation, endpoint re-route and edge deletion by pointer *)
(* gestures, and the state overrides, on a tree as loadNodes leaves it:    *)
(* nodes 1..MaxNodes, at most MaxEdges edges between them, states as the   *)
(* propagation pass left them.                                             *)
(***************************************************************************)
\* edge lists that gestures can have made: ends on nodes, no self-loop, no
\* two edges with the same from and to
LoadedEdgeLists ==
  {es \in SeqsUpTo(GraphIds \X GraphIds, MaxEdges) :
     /\ \A k \in 1..Len(es) : es[k][1] # es[k][2]
     /\ \A k, l \in 1..Len(es) : es[k] = es[l] => k = l}

EdgeInit ==
  /\ \E st \in [GraphIds -> NodeStates], es \in LoadedEdgeLists :
       /\ edges = [k \in 1..Len(es) |-> Edge(MaxNodes + k, es[k][1], es[k][2])]
       /\ nodes = applyConnectionStateRules([i \in GraphIds |-> Node(i, st[i], 0)],
                                            edges, <<>>)
  /\ tasksCache = <<>>
  /\ passes = 0 /\ before = <<>>
  /\ edgeIdx = 0 /\ callStack = <<>> /\ visited = {} /\ visitCount = <<>>
  /\ fileWatchers = <<>>
  /\ OpenedStored
  /\ historyPast = <<>> /\ historyFuture = <<>>
  /\ dragStart = NoDrag /\ creatingEdgeFrom = NULL /\ draggingEdgeEndpoint = NoEndpoint
  /\ selectedNodeId = NULL /\ edgesChanged = FALSE /\ buttonDown = FALSE
  /\ nextId = MaxNodes + MaxEdges + 1
  /\ steps = EdgeSteps /\ run = 0
  /\ lastOp = "open" /\ pre = Graph /\ interleaved = FALSE
  /\ phase = "none" /\ recPre = NoGraph /\ post = NoGraph
  /\ imported = NoGraph /\ preLens = <<0, 0>>
  /\ HitIdle
  /\ renaming = NoRename
  /\ SideIdle

EdgeNext ==
  \/ \E k \in 1..Len(edges), which \in {"from", "to"} : MouseDownEdge(k, which)
  \/ \E i \in 1..Len(nodes) : MouseDownCheckbox(i)
  \/ \E i \in 1..Len(nodes) : MouseDownHandle(i)
  \/ \E t \in NodeIdsOf(nodes) \cup {NULL} : MouseUp(t)
  \/ \E i \in 1..Len(nodes), sel \in NodeStates : StateSelect(i, sel)

EdgeSpec == EdgeInit /\ [][EdgeNext]_vars

(***************************************************************************)
(* GestureSpec: pointer gestures, state overrides and deletions on a new   *)
(* tree, without the history keys, the task loads and the node additions.  *)
(***************************************************************************)
GestureInit ==
  /\ nodes = defaultNodes /\ edges = <<>>
  /\ tasksCache = <<>>
  /\ passes = 0 /\ before = <<>>
  /\ edgeIdx = 0 /\ callStack = <<>> /\ visited = {} /\ visitCount = <<>>
  /\ fileWatchers = <<>>
  /\ OpenedNew
  /\ historyPast = <<>> /\ historyFuture = <<>>
  /\ dragStart = NoDrag /\ creatingEdgeFrom = NULL /\ draggingEdgeEndpoint = NoEndpoint
  /\ selectedNodeId = NULL /\ edgesChanged = FALSE /\ buttonDown = FALSE
  /\ nextId = 3
  /\ steps = GestureSteps /\ run = 0
  /\ lastOp = "open" /\ pre = Graph /\ interleaved = FALSE
  /\ phase = "none" /\ recPre = NoGraph /\ post = NoGraph
  /\ imported = NoGraph /\ preLens = <<0, 0>>
  /\ HitIdle
  /\ renaming = NoRename
  /\ SideIdle

GestureNext ==
  \/ \E k \in 1..Len(edges), which \in {"from", "to"} : MouseDownEdge(k, which)
  \/ \E i \in 1..Len(nodes) : MouseDownCheckbox(i)
  \/ \E i \in 1..Len(nodes) : MouseDownHandle(i)
  \/ \E i \in 1..Len(nodes) : MouseDownNode(i)
  \/ \E t \in NodeIdsOf(nodes) \cup {NULL} : MouseUp(t)
  \/ DeleteKey
  \/ \E i \in 1..Len(nodes), sel \in NodeStates : StateSelect(i, sel)

GestureSpec == GestureInit /\ [][GestureNext]_vars

\* C12: no edge made or re-routed by the pointer handlers goes from a node to
\* that same node
C12_NoSelfLoops == \A k \in 1..Len(edges) : edges[k].from # edges[k].to

\* a gesture that began with one edge has re-routed an endpoint of that edge
C12_Witness ==
  /\ lastOp = "mouseup" /\ ~interleaved
  /\ Len(pre.edges) = 1 /\ Len(edges) = 1
  /\ edges[1].id = pre.edges[1].id
  /\ edges[1] # pre.edges[1]

\* C13: no two edges made or re-routed by the pointer handlers have the same
\* from and the same to
C13_NoDuplicateEdges ==
  \A k, l \in 1..Len(edges) :
    (edges[k].from = edges[l].from /\ edges[k].to = edges[l].to) => k = l

\* a gesture that began with two edges has re-routed an endpoint of one of
\* them, which was compared with the other
C13_Witness ==
  /\ lastOp = "mouseup" /\ ~interleaved
  /\ Len(pre.edges) = 2 /\ Len(edges) = 2
  /\ edges # pre.edges
  /\ {edges[1].from, edges[1].to} = {edges[2].from, edges[2].to}

\* C14: a release that asks for a self-loop or for a duplicate edge leaves the
\* edges and the nodes as they were when the gesture began
C14_RejectedChangeHasNoEffect ==
  (lastOp = "mouseupRejected" /\ ~interleaved)
    => (edges = pre.edges /\ nodes = pre.nodes)

\* every edge starts and ends at a node of the node list
EdgesReferenceNodes ==
  \A k \in 1..Len(edges) :
    /\ edges[k].from # NULL /\ edges[k].from \in NodeIdsOf(nodes)
    /\ edges[k].to # NULL /\ edges[k].to \in NodeIdsOf(nodes)

Surviving(ns, keep) ==
  LET Kept(n) == n.id \in keep
  IN  SelectSeq(ns, Kept)

\* the node lists a handler can hand to the propagation pass when the only
\* states it writes itself are those of an override: nothing, Complete (the
\* checkbox, the selector, the tasks of the linked document) or InProgress
\* (the selector, which is not offered for an Unavailable node)
Overrides(ns) ==
  {ns} \cup {[ns EXCEPT ![i].state = Complete] : i \in 1..Len(ns)}
       \cup {[ns EXCEPT ![i].state = InProgress] :
               i \in {j \in 1..Len(ns) : ns[j].state # Unavailable}}

\* the node id is in the list before and after the step, and the step made
\* it Unavailable
TurnedUnavailable(id) ==
  /\ id \in NodeIdsOf(nodes) /\ id \in NodeIdsOf(nodes')
  /\ StateOf(nodes, id) # Unavailable
  /\ StateOf(nodes', id) = Unavailable

\* the step is a use of the editor's state selector: on a node that is not
\* Unavailable, writing Complete or InProgress, followed by the pass
SelectorWritesOverride ==
  (steps' # steps /\ lastOp' = "stateSelect")
    => \E i \in 1..Len(nodes), s \in {Complete, InProgress} :
         /\ nodes[i].state # Unavailable
         /\ nodes' = applyConnectionStateRules([nodes EXCEPT ![i].state = s],
                                               edges, tasksCache)

C39_UnchangedGestureKeepsHistory ==
  (lastOp \in {"mouseup", "mouseupRejected"} /\ ~interleaved /\ Graph = pre) =>
    <<Len(historyPast), Len(historyFuture)>> = preLens

\* a press and release on a node, or an edge started at a handle and then
\* rejected, has left the graph as it was and the past stack one longer
C39_Witness ==
  /\ lastOp \in {"mouseup", "mouseupRejected"} /\ ~interleaved
  /\ Graph = pre
  /\ Len(historyPast) = preLens[1] + 1

(***************************************************************************)
(* TaskSpec: linking documents, changes of their tasks, the state selector *)
(* and undo and redo, on a tree as loadNodes leaves it, with at most       *)
(* TaskEdges edges.                                                        *)
(***************************************************************************)
TaskInit == EdgeInit /\ Len(edges) <= TaskEdges

TaskNext ==
  \/ \E i \in 1..Len(nodes), tl \in TaskLists : LinkFile(i, tl)
  \/ \E id \in DOMAIN fileWatchers, tl \in TaskLists, fileExp \in FileExps :
       LoadTasks(id, tl, fileExp)
  \/ \E i \in 1..Len(nodes), sel \in NodeStates : StateSelect(i, sel)
  \/ Undo
  \/ Redo

TaskSpec == TaskInit /\ [][TaskNext]_vars

\* the step loaded or reloaded the task list of the node id, which has a
\* linked document, and the list it found is not empty and every task in it
\* is completed
LoadedAllComplete(id) ==
  /\ steps' # steps /\ lastOp' \in {"linkFile", "loadTasks"}
  /\ id \in NodeIdsOf(nodes') /\ nodes'[FindNode(nodes', id)].fileLink = Note
  /\ TasksOf(tasksCache', id) # TasksOf(tasksCache, id)
  /\ AllTasksComplete(tasksCache', id)

\* C17: a step that loads or reloads the task list of a node, not empty and
\* with every task completed, leaves that node Complete; and when the node
\* was not Complete already, the step leaves the states the propagation pass
\* gives for the list with that node Complete
C17_TaskDrivenOverride ==
  [][\A id \in NodeIdsOf(nodes) :
       LoadedAllComplete(id)
         => LET i == FindNode(nodes, id)
                loaded == [nodes EXCEPT ![i] = [nodes'[i] EXCEPT
                                                  !.state = Complete]]
            IN  /\ StateOf(nodes', id) = Complete
                /\ nodes' = IF nodes[i].state = Complete
                            THEN loaded
                            ELSE applyConnectionStateRules(loaded, edges,
                                                           tasksCache')]_vars

\* the state of every node, in the order of the nodes
StatesIn(ns) == [i \in 1..Len(ns) |-> ns[i].state]

\* the step is the callback of the watcher of the node id, which has a linked
\* document, a watcher created before an undo() or redo() replaced the node
\* objects, and the task list it reloaded is not empty and has every task
\* completed
StaleWatcherLoadedAllComplete(id) ==
  /\ steps' # steps /\ lastOp' = "loadTasks"
  /\ id \in DOMAIN fileWatchers /\ fileWatchers[id] # Live
  /\ id \in NodeIdsOf(nodes) /\ nodes[FindNode(nodes, id)].fileLink = Note
  /\ TasksOf(tasksCache', id) # TasksOf(tasksCache, id)
  /\ AllTasksComplete(tasksCache', id)

\* C36: when the callback of a watcher created before an undo() or redo()
\* reloads the tasks of its node and finds them all complete, the node with
\* that id in the graph of the view becomes Complete, and when it was not
\* Complete the states are those the propagation pass gives with that node
\* Complete
C36_OverrideAfterUndo ==
  [][\A id \in NodeIdsOf(nodes) :
       StaleWatcherLoadedAllComplete(id)
         => /\ StateOf(nodes', id) = Complete
            /\ StateOf(nodes, id) # Complete
                 => StatesIn(nodes') =
                      StatesIn(applyConnectionStateRules(
                                 SetState(nodes, id, Complete), edges,
                                 tasksCache'))]_vars

\* after an undo() the watcher of a node has reloaded a task list with every
\* task completed, and the node with that id is not Complete
C36_Witness ==
  /\ lastOp = "loadTasks"
  /\ \E id \in DOMAIN fileWatchers :
       /\ fileWatchers[id] # Live
       /\ id \in NodeIdsOf(nodes) /\ nodes[FindNode(nodes, id)].fileLink = Note
       /\ AllTasksComplete(tasksCache, id)
       /\ StateOf(nodes, id) # Complete
  /\ Len(historyFuture) > 0

\* a gesture that no other handler interrupted has just ended with the
\* release of an edge endpoint that re-routed or deleted the edge
EndpointReleased ==
  /\ lastOp = "mouseup" /\ ~interleaved
  /\ edges # pre.edges /\ Len(edges) <= Len(pre.edges)

\* the node id had an edge when the gesture began and has none now
LeftWithoutEdges(id) ==
  /\ id \in NodeIdsOf(nodes)
  /\ hasAnyConnection(pre.edges, id)
  /\ ~hasAnyConnection(edges, id)

MutatesDerivedState ==
  /\ steps' # steps
  /\ lastOp' \in {"mousedown", "mouseup", "deleteKey", "stateSelect"}
  /\ \/ edges' # edges
     \/ NodeIdsOf(nodes') # NodeIdsOf(nodes)
     \/ \E id \in NodeIdsOf(nodes) \cap NodeIdsOf(nodes') :
          StateOf(nodes', id) # StateOf(nodes, id)

\* C19: a handler that changes the edges, deletes a node or overrides a
\* state ends with the node states the propagation pass gives for the nodes
\* and edges it leaves, so that applying the pass again changes nothing and
\* the next render shows propagated states
C19_PassAfterEveryMutation ==
  [][MutatesDerivedState
       => nodes' = applyConnectionStateRules(nodes', edges', tasksCache')]_vars

(***************************************************************************)
(* TreeSpec: switching between the tree of a newly opened view and another *)
(* stored tree, with edits of the nodes in between.                        *)
(***************************************************************************)
\* the ids of the nodes and of the edge of the other stored tree
OtherIds == <<11, 12, 13>>

\* the trees that settings.trees can hold for the other tree: two nodes in
\* states that an earlier session saved, the first with or without a linked
\* document, with or without an edge between them
StoredTrees ==
  {[nodes |-> <<[Node(OtherIds[1], s1, 0) EXCEPT !.fileLink = link],
                Node(OtherIds[2], s2, 0)>>,
    edges |-> es] :
     s1 \in NodeStates, s2 \in NodeStates, link \in {NoLink, Note},
     es \in {<<>>, <<Edge(OtherIds[3], OtherIds[1], OtherIds[2])>>}}

\* a stored node without a state (undefined, null or an empty string)
NoState == "undefined"

\* a stored state that is not empty and is none of the three values
BadState == "locked"

\* what the state of a node of stored or imported tree data can hold
RawStates == NodeStates \cup {NoState, BadState}

\* loadNodes(), the migration of one node: the old boolean `completed`
\* gives the state of a node that has none, and a node whose state is still
\* empty becomes in-progress; computeOnce then finds every state defined
MigratedState(n) ==
  LET st == IF "completed" \in DOMAIN n /\ n.state = NoState
            THEN IF n.completed THEN Complete ELSE InProgress
            ELSE n.state
  IN  IF st = NoState THEN InProgress ELSE st

\* loadNodes() on a stored tree, with settings in the current format: a node
\* with a linked document takes its exp from the document, the states are
\* migrated, and the propagation pass runs with the task cache as it is
loadNodes(stored, tc, fileExp) ==
  LET withExp == [i \in 1..Len(stored.nodes) |->
                    [id |-> stored.nodes[i].id,
                     state |-> MigratedState(stored.nodes[i]),
                     x |-> stored.nodes[i].x,
                     exp |-> IF stored.nodes[i].fileLink # NoLink
                             THEN fileExp ELSE stored.nodes[i].exp,
                     fileLink |-> stored.nodes[i].fileLink]]
  IN  [nodes |-> applyConnectionStateRules(withExp, stored.edges, tc),
       edges |-> stored.edges]

\* loadAllNodeTasks() from the node at index k on: getNodeTasks for every
\* node with a linked document, whose tasks are tl; acc carries this.nodes,
\* the task cache, the watchers and whether saveNodes() has run
RECURSIVE loadAllNodeTasks(_, _, _, _)
loadAllNodeTasks(acc, es, tl, k) ==
  IF k > Len(acc.nodes) THEN acc
  ELSE LET n == acc.nodes[k]
           tc == Put(acc.tasksCache, n.id, tl)
           completes == CompletedByTasks(tc, n.id, n.state)
       IN  IF n.fileLink = NoLink
           THEN loadAllNodeTasks(acc, es, tl, k + 1)
           ELSE loadAllNodeTasks(
                  [nodes |-> IF completes
                             THEN applyConnectionStateRules(
                                    [acc.nodes EXCEPT ![k].state = Complete],
                                    es, tc)
                             ELSE acc.nodes,
                   tasksCache |-> tc,
                   watchers |-> Put(acc.watchers, n.id, Live),
                   saved |-> acc.saved \/ completes],
                  es, tl, k + 1)

\* the tree stored under name becomes the graph of the view: loadNodes()
\* with the task cache tc of the tree that was open, then the watchers and
\* the task cache are emptied, then loadAllNodeTasks(); the linked documents
\* hold the tasks tl and the number fileExp
LoadTree(ts, name, tc, tl, fileExp) ==
  LET loaded == loadNodes(ts[name], tc, fileExp)
      tasks == loadAllNodeTasks([nodes |-> loaded.nodes, tasksCache |-> <<>>,
                                 watchers |-> <<>>, saved |-> FALSE],
                                loaded.edges, tl, 1)
      graph == [nodes |-> tasks.nodes, edges |-> loaded.edges]
  IN  [nodes |-> graph.nodes, edges |-> graph.edges,
       tasksCache |-> tasks.tasksCache, watchers |-> tasks.watchers,
       shared |-> ~tasks.saved,
       trees |-> Put(ts, name, IF tasks.saved
                               THEN getSnapshot(graph.nodes, graph.edges)
                               ELSE graph)]

\* switchTree(name) with the trees ts stored: saveNodes(), an empty tree
\* under a name that has none, then the load
switchTree(ts, name, tl, fileExp) ==
  LET saved == saveNodes(ts, currentTreeName, nodes, edges)
      created == IF name \in DOMAIN saved THEN saved
                 ELSE Put(saved, name, NoGraph)
  IN  LoadTree(created, name, tasksCache, tl, fileExp)

\* the view takes the graph, the caches and the settings that a load left
Loads(now, name) ==
  /\ nodes' = now.nodes
  /\ edges' = now.edges
  /\ tasksCache' = now.tasksCache
  /\ fileWatchers' = now.watchers
  /\ currentTreeName' = name
  /\ shared' = now.shared
  /\ trees' = now.trees

\* switchTree(name) from the tree selector, with a name other than the
\* current one; the linked documents hold the tasks tl and the number fileExp
SwitchTree(name, tl, fileExp) ==
  /\ CanStep
  /\ ~buttonDown
  /\ name \in TreeNames /\ name # currentTreeName
  /\ tl \in TaskLists /\ fileExp \in FileExps
  /\ Loads(switchTree(trees, name, tl, fileExp), name)
  /\ StartAction(IF name = DefaultTree THEN "switchToDefault" ELSE "switchToOther")
  /\ UNCHANGED <<passVars, walkVars, hitVars, renaming, sideVars, gestureVars>>
  /\ NoRecord

\* the Create button of the New Tree dialog: createTree(name), which stores
\* an empty tree unless the name is taken, then switchTree(name)
CreateTree(name, tl, fileExp) ==
  /\ CanStep
  /\ ~buttonDown
  /\ name \in TreeNames
  /\ tl \in TaskLists /\ fileExp \in FileExps
  /\ LET created == IF name \in DOMAIN trees THEN trees
                    ELSE Put(trees, name, NoGraph)
     IN  Loads(switchTree(created, name, tl, fileExp), name)
  /\ StartAction("createTree")
  /\ UNCHANGED <<passVars, walkVars, hitVars, renaming, sideVars, gestureVars>>
  /\ NoRecord

\* the trees without the one stored under name
TreesWithout(ts, name) == [k \in DOMAIN ts \ {name} |-> ts[k]]

\* Object.keys(trees)[0] of the trees that remain; the model has two names,
\* so that at most one tree remains
FirstTree(ts) == CHOOSE k \in DOMAIN ts : TRUE

\* vault.off('modify', w) with the clean-up function w of a watcher removes
\* no listener: the watchers of the tree that was open keep firing, each with
\* the node object it was created with, beside the watchers of the loaded tree
LeakedWatchers(fw, ns, loaded) ==
  LET old == DetachWatchers(fw, ns, NodeIdsOf(ns))
  IN  [id \in DOMAIN old \cup DOMAIN loaded |->
         IF id \in DOMAIN loaded THEN loaded[id] ELSE old[id]]

\* deleteTree(name) of a stored tree (the Delete Tree button calls it with
\* the current name when more than one tree is stored): the entry is deleted;
\* if it was the current tree, the first remaining tree, or a new empty
\* default tree when none remains, is loaded
DeleteTree(name, tl, fileExp) ==
  /\ CanStep
  /\ ~buttonDown
  /\ name \in DOMAIN trees
  /\ tl \in TaskLists /\ fileExp \in FileExps
  /\ LET remaining == TreesWithout(trees, name)
         base == IF DOMAIN remaining # {} THEN remaining
                 ELSE Put(remaining, DefaultTree, NoGraph)
         target == IF DOMAIN remaining # {} THEN FirstTree(remaining)
                   ELSE DefaultTree
         now == LoadTree(base, target, tasksCache, tl, fileExp)
     IN  IF name = currentTreeName
         THEN Loads([now EXCEPT !.watchers =
                       LeakedWatchers(fileWatchers, nodes, now.watchers)],
                    target)
         ELSE /\ trees' = remaining
              /\ UNCHANGED <<nodes, edges, tasksCache, fileWatchers,
                             currentTreeName, shared>>
  /\ StartAction(IF name = currentTreeName THEN "deleteCurrentTree"
                 ELSE "deleteTree")
  /\ UNCHANGED <<passVars, walkVars, hitVars, renaming, sideVars, gestureVars>>
  /\ NoRecord

\* a payload without a name
NoName == ""

\* the ids of the nodes and of the edge of an imported tree
ImportIds == <<21, 22, 23>>

\* the first node of an imported tree: a state of the three, no state, any
\* other state, or no state and the old boolean `completed`
ImportedNodes ==
  {Node(ImportIds[1], s, 0) : s \in {InProgress, NoState, BadState}}
    \cup {[id |-> ImportIds[1], state |-> NoState, x |-> 0, exp |-> DefaultExp,
           fileLink |-> NoLink, completed |-> TRUE]}

\* the trees of the payloads: no nodes, or two nodes, with no edge or with
\* an edge from the first node whose other end is null
ImportedTrees ==
  {NoGraph} \cup
  {[nodes |-> <<n1, Node(ImportIds[2], InProgress, 0)>>, edges |-> es] :
     n1 \in ImportedNodes,
     es \in {<<>>, <<Edge(ImportIds[3], ImportIds[1], NULL)>>}}

\* mutant of ImportRejected: the answer to the overwrite question is ignored
ImportRejected_IgnoresAnswer(ts, name, overwrite) == name = NoName

\* importTree(data) returns before it changes anything: the payload has no
\* name, or a tree of that name is stored and the user declines to overwrite
ImportRejected(ts, name, overwrite) ==
  \/ name = NoName
  \/ name \in DOMAIN ts /\ ~overwrite

\* importTree(data) with the user's answer to the overwrite question: the
\* payload is stored under its name, then switchTree(name)
ImportTree(name, data, overwrite, tl, fileExp) ==
  /\ CanStep
  /\ ~buttonDown
  /\ name \in TreeNames \cup {NoName} /\ data \in ImportedTrees
  /\ tl \in TaskLists /\ fileExp \in FileExps
  /\ IF ImportRejected(trees, name, overwrite)
     THEN UNCHANGED <<graphVars, fileWatchers, settingsVars>>
     ELSE Loads(switchTree(Put(trees, name, data), name, tl, fileExp), name)
  /\ steps' = steps - 1 /\ run' = run
  /\ lastOp' = IF name = NoName THEN "importNoName"
               ELSE IF name \notin DOMAIN trees THEN "importNew"
               ELSE IF ~overwrite THEN "importDeclined"
               ELSE IF name = currentTreeName THEN "importOverCurrent"
               ELSE "importOverOther"
  /\ imported' = IF ImportRejected(trees, name, overwrite) THEN NoGraph
                 ELSE data
  /\ pre' = Graph /\ interleaved' = buttonDown
  /\ preLens' = <<Len(historyPast), Len(historyFuture)>>
  /\ UNCHANGED <<passVars, walkVars, hitVars, renaming, sideVars, gestureVars>>
  /\ NoRecord

\* a newly opened view, with the other tree stored or not
TreeInit ==
  /\ nodes = defaultNodes /\ edges = <<>> /\ tasksCache = <<>>
  /\ passes = 0 /\ before = <<>>
  /\ edgeIdx = 0 /\ callStack = <<>> /\ visited = {} /\ visitCount = <<>>
  /\ fileWatchers = <<>>
  /\ \E other \in StoredTrees \cup {NoGraph} :
       trees = IF other = NoGraph THEN Put(<<>>, DefaultTree, NoGraph)
               ELSE Put(Put(<<>>, DefaultTree, NoGraph), OtherTree, other)
  /\ currentTreeName = DefaultTree /\ shared = FALSE
  /\ historyPast = <<>> /\ historyFuture = <<>>
  /\ dragStart = NoDrag /\ creatingEdgeFrom = NULL /\ draggingEdgeEndpoint = NoEndpoint
  /\ selectedNodeId = NULL /\ edgesChanged = FALSE /\ buttonDown = FALSE
  /\ nextId = 3
  /\ steps = TreeSteps /\ run = 0
  /\ lastOp = "open" /\ pre = Graph /\ interleaved = FALSE
  /\ phase = "none" /\ recPre = NoGraph /\ post = NoGraph
  /\ imported = NoGraph /\ preLens = <<0, 0>>
  /\ HitIdle
  /\ renaming = NoRename
  /\ SideIdle

TreeNext ==
  \/ \E name \in TreeNames, tl \in TaskLists, fileExp \in FileExps :
       SwitchTree(name, tl, fileExp)
  \/ \E i \in 1..Len(nodes) : MouseDownHandle(i)
  \/ \E t \in NodeIdsOf(nodes) \cup {NULL} : MouseUp(t)
  \/ \E i \in 1..Len(nodes), sel \in NodeStates : StateSelect(i, sel)
  \/ \E i \in 1..Len(nodes), fileExp \in FileExps : OpenLinkedFile(i, fileExp)

TreeSpec == TreeInit /\ [][TreeNext]_vars

\* C20: switchTree(B) from the tree A leaves under A the nodes and edges
\* that were in memory when it was called, makes B the current tree, and
\* leaves in memory the nodes and edges stored under B
C20_SwitchTreeSavesAndLoads ==
  [][(steps' # steps /\ lastOp' \in {"switchToDefault", "switchToOther"})
       => /\ trees'[currentTreeName] = [nodes |-> nodes, edges |-> edges]
          /\ currentTreeName' = IF lastOp' = "switchToDefault"
                                THEN DefaultTree ELSE OtherTree
          /\ currentTreeName' # currentTreeName
          /\ [nodes |-> nodes', edges |-> edges'] = trees'[currentTreeName']]_vars

\* a switch away from the default tree was made with a node whose exp is
\* not finite, and the stored copy of that node has null
C20_Witness ==
  /\ lastOp = "switchToOther"
  /\ \E i \in 1..Len(pre.nodes) :
       /\ pre.nodes[i].exp = NonFinite
       /\ i \in 1..Len(trees[DefaultTree].nodes)
       /\ trees[DefaultTree].nodes[i].exp = JsonNull

(***************************************************************************)
(* CrossSpec: undo and redo around switches and deletions of trees.  The   *)
(* default tree holds the nodes 1 and 2 and the other tree the nodes of    *)
(* OtherIds; no handler of this specification adds a node, so that the ids *)
(* of a node tell the tree it belongs to.                                  *)
(***************************************************************************)
CrossInit == TreeInit /\ OtherTree \in DOMAIN trees

CrossNext ==
  \/ \E name \in TreeNames, tl \in TaskLists, fileExp \in FileExps :
       SwitchTree(name, tl, fileExp)
  \/ \E name \in TreeNames, tl \in TaskLists, fileExp \in FileExps :
       DeleteTree(name, tl, fileExp)
  \/ \E i \in 1..Len(nodes), sel \in NodeStates : StateSelect(i, sel)
  \/ Undo
  \/ Redo

CrossSpec == CrossInit /\ [][CrossNext]_vars

\* the ids of the nodes that the tree stored under name can hold
TreeIds(name) ==
  IF name = DefaultTree THEN NodeIdsOf(defaultNodes)
  ELSE {OtherIds[1], OtherIds[2]}

\* the nodes in memory and the nodes stored under the name of the active
\* tree are nodes of the active tree
OnlyOwnNodes ==
  /\ NodeIdsOf(nodes) \subseteq TreeIds(currentTreeName)
  /\ NodeIdsOf(trees[currentTreeName].nodes) \subseteq TreeIds(currentTreeName)

\* C35: an undo() or redo() never puts in memory, nor stores under the name
\* of the active tree, a snapshot recorded while another tree was active:
\* after the step the nodes in memory and those stored under the active name
\* are nodes of the active tree
C35_HistoryStaysInTree ==
  [][(steps' # steps /\ lastOp' \in {"undo", "redo"}) => OnlyOwnNodes']_vars

\* after a switch to the default tree an undo() has put the nodes of the
\* other tree in memory and stored them under the name of the default tree
C35_Witness ==
  /\ lastOp = "undo"
  /\ currentTreeName = DefaultTree
  /\ NodeIdsOf(nodes) = {OtherIds[1], OtherIds[2]}
  /\ NodeIdsOf(trees[DefaultTree].nodes) = {OtherIds[1], OtherIds[2]}

(***************************************************************************)
(* ForestSpec: creating, switching, deleting and importing trees, starting *)
(* from a newly opened view, with documents linked in between.             *)
(***************************************************************************)
ForestInit ==
  /\ nodes = defaultNodes /\ edges = <<>> /\ tasksCache = <<>>
  /\ passes = 0 /\ before = <<>>
  /\ edgeIdx = 0 /\ callStack = <<>> /\ visited = {} /\ visitCount = <<>>
  /\ fileWatchers = <<>>
  /\ \E other \in StoredTrees \cup {NoGraph} :
       trees = IF other = NoGraph THEN Put(<<>>, DefaultTree, NoGraph)
               ELSE Put(Put(<<>>, DefaultTree, NoGraph), OtherTree, other)
  /\ currentTreeName = DefaultTree /\ shared = FALSE
  /\ historyPast = <<>> /\ historyFuture = <<>>
  /\ dragStart = NoDrag /\ creatingEdgeFrom = NULL /\ draggingEdgeEndpoint = NoEndpoint
  /\ selectedNodeId = NULL /\ edgesChanged = FALSE /\ buttonDown = FALSE
  /\ nextId = 3
  /\ steps = ForestSteps /\ run = 0
  /\ lastOp = "open" /\ pre = Graph /\ interleaved = FALSE
  /\ phase = "none" /\ recPre = NoGraph /\ post = NoGraph
  /\ imported = NoGraph /\ preLens = <<0, 0>>
  /\ HitIdle
  /\ renaming = NoRename
  /\ SideIdle

ForestNext ==
  \/ \E name \in TreeNames, tl \in TaskLists, fileExp \in FileExps :
       SwitchTree(name, tl, fileExp)
  \/ \E name \in TreeNames, tl \in TaskLists, fileExp \in FileExps :
       CreateTree(name, tl, fileExp)
  \/ \E name \in TreeNames, tl \in TaskLists, fileExp \in FileExps :
       DeleteTree(name, tl, fileExp)
  \/ \E name \in TreeNames \cup {NoName}, data \in ImportedTrees,
        overwrite \in BOOLEAN, tl \in TaskLists, fileExp \in FileExps :
       ImportTree(name, data, overwrite, tl, fileExp)
  \/ \E i \in 1..Len(nodes), tl \in TaskLists : LinkFile(i, tl)

ForestSpec == ForestInit /\ [][ForestNext]_vars

\* the operations on trees that load a tree into the view
LoadingOps ==
  {"switchToDefault", "switchToOther", "createTree", "deleteCurrentTree",
   "importNew", "importOverCurrent", "importOverOther"}

\* the operations on trees that return without loading one
ReturningOps == {"deleteTree", "importNoName", "importDeclined"}

\* C21: after each of createTree, switchTree, deleteTree and importTree the
\* current tree name is a key of the stored trees; an operation that loads a
\* tree leaves in memory exactly the nodes and edges stored under the current
\* name, and one that loads none leaves the graph in memory, the current name
\* and the tree stored under it as they were
C21_OneActiveTree ==
  [][(steps' # steps /\ lastOp' \in LoadingOps \cup ReturningOps)
       => /\ currentTreeName' \in DOMAIN trees'
          /\ lastOp' \in LoadingOps
               => [nodes |-> nodes', edges |-> edges'] = trees'[currentTreeName']
          /\ lastOp' \in ReturningOps
               => /\ UNCHANGED <<nodes, edges, currentTreeName>>
                  /\ trees'[currentTreeName] = trees[currentTreeName]]_vars

\* a tree whose linked document holds a number that is not finite was loaded,
\* the loaded tasks completed its node, and the copy that saveNodes() stored
\* has null where the node in memory has the number
C21_Witness ==
  /\ lastOp \in LoadingOps
  /\ currentTreeName \in DOMAIN trees
  /\ \E i \in 1..Len(nodes) :
       /\ nodes[i].exp = NonFinite
       /\ i \in 1..Len(trees[currentTreeName].nodes)
       /\ trees[currentTreeName].nodes[i].exp = JsonNull

\* the current tree name is a key of the stored trees
CurrentTreeStored == currentTreeName \in DOMAIN trees

\* the nodes ns and the edges es are those of the payload: the same ids,
\* positions and linked documents in the same order, and the same edges
HoldsImported(ns, es, data) ==
  /\ Len(ns) = Len(data.nodes)
  /\ \A i \in 1..Len(ns) :
       /\ ns[i].id = data.nodes[i].id
       /\ ns[i].x = data.nodes[i].x
       /\ ns[i].fileLink = data.nodes[i].fileLink
  /\ es = data.edges

\* importTree stored the payload over the tree that was stored under its name
OverwritingImport ==
  steps' # steps /\ lastOp' \in {"importOverCurrent", "importOverOther"}

\* C22: after an import that overwrites a stored tree, the tree of the
\* payload's name is the current one, and both the tree stored under that
\* name and the graph in memory hold the nodes and edges of the payload and
\* no others, also when the name is that of the tree that was open
C22_ImportOverwriteReplaces ==
  [][OverwritingImport
       => /\ currentTreeName' \in DOMAIN trees /\ currentTreeName' \in DOMAIN trees'
          /\ (lastOp' = "importOverCurrent") = (currentTreeName' = currentTreeName)
          /\ HoldsImported(nodes', edges', imported')
          /\ HoldsImported(trees'[currentTreeName'].nodes,
                           trees'[currentTreeName'].edges, imported')]_vars

\* the same for the imports whose name is not that of the tree that was open
C22_ReplacesOtherTree ==
  [][(OverwritingImport /\ lastOp' = "importOverOther")
       => /\ currentTreeName' \in DOMAIN trees /\ currentTreeName' # currentTreeName
          /\ HoldsImported(nodes', edges', imported')
          /\ HoldsImported(trees'[currentTreeName'].nodes,
                           trees'[currentTreeName'].edges, imported')]_vars

\* a payload of two nodes was imported over the tree that was open, and the
\* view and the stored tree still hold the nodes the view had before
C22_Witness ==
  /\ lastOp = "importOverCurrent"
  /\ Len(imported.nodes) = 2
  /\ Len(pre.nodes) > 0
  /\ NodeIdsOf(nodes) = NodeIdsOf(pre.nodes)
  /\ NodeIdsOf(trees[currentTreeName].nodes) = NodeIdsOf(pre.nodes)
  /\ NodeIdsOf(nodes) \cap NodeIdsOf(imported.nodes) = {}

\* C23: an import that is rejected, because the payload has no name or
\* because the user declines to overwrite the tree stored under its name,
\* leaves the stored trees, the current tree name, the nodes and edges in
\* memory and the history stacks as they were
C23_RejectedImportChangesNothing ==
  [][(steps' # steps /\ lastOp' \in {"importNoName", "importDeclined"})
       => UNCHANGED <<trees, currentTreeName, nodes, edges,
                      historyPast, historyFuture>>]_vars

\* the user declined to overwrite a stored tree that is not empty, with a
\* snapshot on the undo stack
C23_Witness ==
  /\ lastOp = "importDeclined"
  /\ \E name \in DOMAIN trees : Len(trees[name].nodes) > 0
  /\ Len(historyPast) > 0

\* C24: once a tree has been loaded, by a switch, a creation, a deletion or
\* an import, the state of every node in memory is complete, in-progress or
\* unavailable, whatever the stored tree or the payload held
C24_LoadedStatesAreValid ==
  lastOp \in LoadingOps => \A i \in 1..Len(nodes) : nodes[i].state \in NodeStates

\* the same for the loaded nodes that have no edge at all, or an edge both
\* of whose ends are ids
C24_ValidUnlessHalfEdge ==
  lastOp \in LoadingOps
    => \A i \in 1..Len(nodes) :
         \/ nodes[i].state \in NodeStates
         \/ /\ hasAnyConnection(edges, nodes[i].id)
            /\ \A k \in 1..Len(edges) :
                 (edges[k].from = nodes[i].id \/ edges[k].to = nodes[i].id)
                   => (edges[k].from = NULL \/ edges[k].to = NULL)

\* an imported node came with a state that is none of the three and with an
\* edge whose other end is null, and holds that state after the load
C24_Witness ==
  /\ lastOp \in {"importNew", "importOverOther"}
  /\ \E i \in 1..Len(nodes) :
       /\ nodes[i].state = BadState
       /\ hasAnyConnection(edges, nodes[i].id)

\* imported nodes without a state, one of them with the old boolean
\* `completed`, hold a state of the three after the load
C24_Migrated ==
  /\ lastOp \in {"importNew", "importOverOther"}
  /\ \E i \in 1..Len(imported.nodes) :
       /\ imported.nodes[i].state = NoState
       /\ "completed" \in DOMAIN imported.nodes[i]
       /\ nodes[i].state = Complete

\* the operations that call switchTree
SwitchingOps == LoadingOps \ {"deleteCurrentTree"}

\* the tree that switchTree finds stored under the name it switches to,
\* once it has saved the tree that was open
IncomingTree ==
  LET held == IF lastOp' \in {"importNew", "importOverCurrent", "importOverOther"}
              THEN Put(trees, currentTreeName', imported')
              ELSE trees
      saved == saveNodes(held, currentTreeName, nodes, edges)
  IN  IF currentTreeName' \in DOMAIN saved THEN saved[currentTreeName']
      ELSE NoGraph

\* C27: switchTree clears the watchers and the task cache of the tree that
\* was open before it loads the other tree: the nodes in memory afterwards
\* are those that a load of the incoming tree with an empty task cache gives,
\* for some content of the linked documents, and every watcher and every
\* entry of the task cache that remains belongs to a node of the loaded tree
C27_SwitchClearsBeforeLoad ==
  [][(steps' # steps /\ lastOp' \in SwitchingOps)
       => /\ \E tl \in TaskLists, fileExp \in FileExps :
               nodes' = LoadTree(Put(<<>>, currentTreeName', IncomingTree),
                                 currentTreeName', <<>>, tl, fileExp).nodes
          /\ DOMAIN tasksCache' \subseteq NodeIdsOf(nodes')
          /\ DOMAIN fileWatchers' \subseteq NodeIdsOf(nodes')
          /\ \A id \in DOMAIN fileWatchers' : fileWatchers'[id] = Live]_vars

\* the part of C27 about what remains after the switch
C27_NothingOfOutgoingRemains ==
  [][(steps' # steps /\ lastOp' \in SwitchingOps)
       => /\ DOMAIN tasksCache' \subseteq NodeIdsOf(nodes')
          /\ DOMAIN fileWatchers' \subseteq NodeIdsOf(nodes')
          /\ \A id \in DOMAIN fileWatchers' : fileWatchers'[id] = Live]_vars

\* an imported node without a linked document, whose payload did not say it
\* is complete, is complete after the import: the pass of the load found
\* the completed tasks of the node with the same id of the tree that was open
C27_Witness ==
  /\ lastOp \in {"importNew", "importOverOther"}
  /\ \E i \in 1..Len(nodes) :
       /\ nodes[i].state = Complete
       /\ nodes[i].fileLink = NoLink
       /\ imported.nodes[i].state # Complete
       /\ "completed" \notin DOMAIN imported.nodes[i]

\* the from or the to of the edge matches no node
Dangling(ns, e) == e.from \notin NodeIdsOf(ns) \/ e.to \notin NodeIdsOf(ns)

\* neither end of the edge matches a node
Foreign(ns, e) == e.from \notin NodeIdsOf(ns) /\ e.to \notin NodeIdsOf(ns)

\* the edge list without its dangling edges
WithoutDangling(ns, es) == SelectSeq(es, LAMBDA e : ~Dangling(ns, e))

\* the edge list without the edges neither end of which is a node
WithoutForeign(ns, es) == SelectSeq(es, LAMBDA e : ~Foreign(ns, e))

\* C28: the propagation pass leaves every node in the state it would have
\* if the edges whose from or to matches no node had been removed from the
\* edge list first
C28_DanglingEdgesAbsent ==
  passes = 1
    => nodes = applyConnectionStateRules(before, WithoutDangling(before, edges),
                                         tasksCache)

\* the same for the edges neither end of which matches a node
C28_ForeignEdgesAbsent ==
  passes = 1
    => nodes = applyConnectionStateRules(before, WithoutForeign(before, edges),
                                         tasksCache)

\* a node that only a dangling edge mentions was in progress before the
\* pass and still is, where without the edge it would be unavailable
C28_Witness ==
  /\ passes = 1
  /\ \E i \in 1..Len(nodes) :
       /\ before[i].state = InProgress /\ nodes[i].state = InProgress
       /\ hasAnyConnection(edges, nodes[i].id)
       /\ \A k \in 1..Len(edges) : Dangling(nodes, edges[k])
       /\ applyConnectionStateRules(before, <<>>, tasksCache)[i].state = Unavailable

\* the node has a child, a node that an edge leads from to it, that is not
\* complete
HasOpenChild(ns, es, id) ==
  LET children == childrenMap(ns, es, id)
  IN  \E c \in 1..Len(children) : StateOf(ns, children[c]) # Complete

\* C29: after the propagation pass every node with a child that is not
\* complete is unavailable, unless it is complete itself, whatever the order
\* of the nodes and of the edges and also on a cycle
C29_OpenChildLocksParent ==
  passes >= 1
    => \A i \in 1..Len(nodes) :
         HasOpenChild(nodes, edges, nodes[i].id)
           => nodes[i].state \in {Unavailable, Complete}

\* two nodes on a cycle, each the child of the other, were in progress
\* before the pass and are unavailable after it
C29_Witness ==
  /\ passes = 1
  /\ \E i \in 1..Len(nodes), j \in 1..Len(nodes) :
       /\ i # j
       /\ \E k \in 1..Len(edges) : edges[k].from = nodes[i].id /\ edges[k].to = nodes[j].id
       /\ \E k \in 1..Len(edges) : edges[k].from = nodes[j].id /\ edges[k].to = nodes[i].id
       /\ before[i].state = InProgress /\ before[j].state = InProgress
       /\ nodes[i].state = Unavailable /\ nodes[j].state = Unavailable

(***************************************************************************)
(* RenameSpec: changeNodeId on the nodes of a newly opened view, with      *)
(* documents linked, watchers firing and states overridden before, during  *)
(* and after the call.                                                     *)
(***************************************************************************)
\* the ids that changeNodeId is asked for
RequestedIds == {1, 2, 3}

\* "while (this.nodes.some(n => n.id === uniqueId)) uniqueId++"
RECURSIVE FreeIdFrom(_, _)
FreeIdFrom(ns, id) == IF id \in NodeIdsOf(ns) THEN FreeIdFrom(ns, id + 1) ELSE id

\* the id changeNodeId gives the node at index i when asked for newId
UniqueId(ns, i, newId) ==
  IF \E j \in 1..Len(ns) : j # i /\ ns[j].id = newId
  THEN FreeIdFrom(ns, newId)
  ELSE newId

\* the nodes with the id oldId replaced
RenameNodes(ns, oldId, newId) ==
  [k \in 1..Len(ns) |-> IF ns[k].id = oldId THEN [ns[k] EXCEPT !.id = newId]
                         ELSE ns[k]]

\* the edges with the ends that were oldId replaced
RenameEdges(es, oldId, newId) ==
  [k \in 1..Len(es) |->
     [es[k] EXCEPT !.from = IF es[k].from = oldId THEN newId ELSE es[k].from,
                   !.to = IF es[k].to = oldId THEN newId ELSE es[k].to]]

\* if (map.has(oldId)) { map.set(newId, map.get(oldId)); map.delete(oldId) }
RenameKey(map, oldId, newId) ==
  IF oldId \in DOMAIN map
  THEN [k \in (DOMAIN map \ {oldId}) \cup {newId} |->
          IF k = newId THEN map[oldId] ELSE map[k]]
  ELSE map

\* changeNodeId awaits updateFileFrontmatterWithNodeId: the node has a linked
\* document, or a node at the other end of one of its edges has one
WritesDocuments(ns, es, i) ==
  \/ ns[i].fileLink # NoLink
  \/ \E k \in 1..Len(es), j \in 1..Len(ns) :
       /\ j # i /\ ns[j].fileLink # NoLink
       /\ \/ es[k].from = ns[i].id /\ es[k].to = ns[j].id
          \/ es[k].to = ns[i].id /\ es[k].from = ns[j].id

\* the end of changeNodeId: the entries of the task cache and of the watcher
\* registry move to the new id, the selection follows, saveNodes()
RenameCaches(oldId, newId) ==
  /\ tasksCache' = RenameKey(tasksCache, oldId, newId)
  /\ fileWatchers' = RenameKey(fileWatchers, oldId, newId)
  /\ selectedNodeId' = IF selectedNodeId = oldId THEN newId ELSE selectedNodeId
  /\ renaming' = NoRename

\* changeNodeId(node, newId) up to its first await, or to its end when it
\* has no document to write: recordSnapshot(), then the node and the edges
\* take the new id
ChangeNodeId(i, newId) ==
  /\ CanStep
  /\ ~buttonDown
  /\ renaming = NoRename
  /\ i \in 1..Len(nodes) /\ newId \in RequestedIds /\ newId # nodes[i].id
  /\ LET oldId == nodes[i].id
         id == UniqueId(nodes, i, newId)
     IN  /\ nodes' = [nodes EXCEPT ![i].id = id]
         /\ edges' = RenameEdges(edges, oldId, id)
         /\ IF WritesDocuments(nodes', edges', i)
            THEN /\ renaming' = [oldId |-> oldId, newId |-> id]
                 /\ UNCHANGED <<tasksCache, fileWatchers, selectedNodeId>>
                 /\ trees' = IF shared
                             THEN [trees EXCEPT ![currentTreeName] =
                                     [nodes |-> RenameNodes(@.nodes, oldId, id),
                                      edges |-> RenameEdges(@.edges, oldId, id)]]
                             ELSE trees
                 /\ UNCHANGED <<currentTreeName, shared>>
            ELSE /\ RenameCaches(oldId, id)
                 /\ Save
  /\ Record(nodes, edges)
  /\ StartAction("changeNodeId")
  /\ UNCHANGED <<passVars, walkVars, hitVars, sideVars, dragStart, creatingEdgeFrom,
                 draggingEdgeEndpoint, edgesChanged, buttonDown, nextId>>

\* changeNodeId goes on after its awaits
ChangeNodeIdResume ==
  /\ CanStep
  /\ renaming # NoRename
  /\ RenameCaches(renaming.oldId, renaming.newId)
  /\ ContinueAction("changeNodeIdDone")
  /\ UNCHANGED <<nodes, edges, passVars, walkVars, hitVars, sideVars, dragStart,
                 creatingEdgeFrom, draggingEdgeEndpoint, edgesChanged,
                 buttonDown, nextId>>
  /\ NoRecord
  /\ Save

RenameNext ==
  \/ \E i \in 1..Len(nodes), newId \in RequestedIds : ChangeNodeId(i, newId)
  \/ ChangeNodeIdResume
  \/ \E i \in 1..Len(nodes), tl \in TaskLists : LinkFile(i, tl)
  \/ \E id \in DOMAIN fileWatchers, tl \in TaskLists, fileExp \in FileExps :
       LoadTasks(id, tl, fileExp)
  \/ \E i \in 1..Len(nodes), sel \in NodeStates : StateSelect(i, sel)

RenameSpec == Init /\ [][RenameNext]_vars

\* the node and its edges carry the new id while the task cache or the
\* watcher registry still has the old id as a key
HalfRenamed ==
  /\ renaming # NoRename
  /\ renaming.newId \in NodeIdsOf(nodes)
  /\ renaming.oldId \in DOMAIN tasksCache \cup DOMAIN fileWatchers

\* C30: no handler, watcher or render can run while the node and its edges
\* carry the new id and the task cache or the watcher registry is still
\* keyed by the old one; when changeNodeId has finished, the old id is a key
\* of neither and the ids of the nodes are distinct
C30_RenameIsAtomic ==
  /\ ~HalfRenamed
  /\ lastOp \in {"changeNodeId", "changeNodeIdDone"} /\ renaming = NoRename
       => /\ \A i \in 1..Len(nodes), j \in 1..Len(nodes) :
               nodes[i].id = nodes[j].id => i = j
          /\ \A id \in DOMAIN tasksCache \cup DOMAIN fileWatchers :
               id \in NodeIdsOf(nodes)

\* the part of C30 about the end of the call
C30_RenamedWhenDone ==
  lastOp \in {"changeNodeId", "changeNodeIdDone"} /\ renaming = NoRename
    => /\ \A i \in 1..Len(nodes), j \in 1..Len(nodes) :
            nodes[i].id = nodes[j].id => i = j
       /\ \A id \in DOMAIN tasksCache \cup DOMAIN fileWatchers :
            id \in NodeIdsOf(nodes)

\* the watcher of the node ran while changeNodeId was waiting: the task
\* cache has an entry under the old id and one under the new id
C30_Witness ==
  /\ lastOp = "loadTasks"
  /\ HalfRenamed
  /\ renaming.oldId \in DOMAIN tasksCache
  /\ renaming.newId \in DOMAIN tasksCache

(***************************************************************************)
(* PlaceSpec: findNonOverlappingPosition and getNodeAtWorld on three nodes *)
(* that lie on one horizontal line of the canvas, so that a world point is *)
(* its x coordinate and the distance of two points is |dx|.                *)
(***************************************************************************)
\* the x coordinates of the nodes: apart, close, or on top of each other as
\* the two nodes of defaultNodes() are
Coordinates == {0, 100, 200}

\* the x coordinates of the pointer
PointerAt == {0, 10, 100, 137, 190, 300}

\* the radii computeNodeRadius measures
Radii == {NodeRadius, 48}

\* node.shape: the shapes that are hit by distance and by bounding box
Circle == "circle"

Square == "square"

\* a node of shape sh at px
ShapedNode(i, px, sh) ==
  [id |-> i, state |-> Unavailable, x |-> px, exp |-> DefaultExp,
   fileLink |-> NoLink, shape |-> sh]

Abs(v) == IF v < 0 THEN -v ELSE v

\* this.nodeRadii[id] || this.settings.nodeRadius
RadiusOf(radii, id) == IF id \in DOMAIN radii THEN radii[id] ELSE NodeRadius

\* draggingRadius + otherRadius + minMargin
MinDistance(radii, id, otherId) ==
  RadiusOf(radii, id) + RadiusOf(radii, otherId) + MinMargin

\* distance < minDistance for the node at index k
Collides(ns, radii, targetX, id, k) ==
  /\ ns[k].id # id
  /\ Abs(targetX - ns[k].x) < MinDistance(radii, id, ns[k].id)

\* findNonOverlappingPosition(targetX, targetY, draggingNode), the loop from
\* index k on: the first node of this.nodes that the target collides with
\* decides; the result is at minDistance from it, on the side of the target,
\* or on the side dir (1 or -1, the cosine of the random angle) when the
\* target is on top of it
RECURSIVE findNonOverlappingPosition(_, _, _, _, _, _)
findNonOverlappingPosition(ns, radii, targetX, id, dir, k) ==
  IF k > Len(ns) THEN targetX
  ELSE IF Collides(ns, radii, targetX, id, k)
       THEN LET minDistance == MinDistance(radii, id, ns[k].id)
                dx == targetX - ns[k].x
            IN  IF dx = 0 THEN ns[k].x + dir * minDistance
                ELSE IF dx > 0 THEN ns[k].x + minDistance
                ELSE ns[k].x - minDistance
       ELSE findNonOverlappingPosition(ns, radii, targetX, id, dir, k + 1)

\* the test of getNodeAtWorld for one node: the bounding box for a square or
\* a diamond, the distance for the other shapes
Hits(n, r, px) ==
  IF n.shape = Square
  THEN px >= n.x - r /\ px <= n.x + r
  ELSE (px - n.x) * (px - n.x) <= r * r

\* getNodeAtWorld(x, y), the loop from index k on: the id of the first node
\* of this.nodes that the point hits, or NULL
RECURSIVE getNodeAtWorld(_, _, _, _)
getNodeAtWorld(ns, radii, px, k) ==
  IF k > Len(ns) THEN NULL
  ELSE IF Hits(ns[k], RadiusOf(radii, ns[k].id), px) THEN ns[k].id
       ELSE getNodeAtWorld(ns, radii, px, k + 1)

\* three nodes, the first of either shape and with or without a measured
\* radius, and a drag of one of them in progress
PlaceInit ==
  /\ \E x1 \in Coordinates, x2 \in Coordinates, x3 \in Coordinates,
        sh \in {Circle, Square} :
       nodes = <<ShapedNode(1, x1, sh), ShapedNode(2, x2, Circle),
                 ShapedNode(3, x3, Circle)>>
  /\ edges = <<>> /\ tasksCache = <<>>
  /\ passes = 0 /\ before = <<>>
  /\ edgeIdx = 0 /\ callStack = <<>> /\ visited = {} /\ visitCount = <<>>
  /\ fileWatchers = <<>>
  /\ trees = Put(<<>>, DefaultTree, Graph)
  /\ currentTreeName = DefaultTree /\ shared = TRUE
  /\ historyPast = <<>> /\ historyFuture = <<>>
  /\ \E i \in 1..3 : dragStart = [nodeId |-> nodes[i].id, x |-> nodes[i].x]
  /\ creatingEdgeFrom = NULL /\ draggingEdgeEndpoint = NoEndpoint
  /\ selectedNodeId = dragStart.nodeId /\ edgesChanged = FALSE
  /\ buttonDown = TRUE
  /\ nextId = 4
  /\ steps = PlaceSteps /\ run = 0
  /\ lastOp = "mousedown" /\ pre = Graph /\ interleaved = FALSE
  /\ phase = "none" /\ recPre = NoGraph /\ post = NoGraph
  /\ imported = NoGraph /\ preLens = <<0, 0>>
  /\ \E r \in Radii : nodeRadii \in {<<>>, Put(<<>>, 1, r)}
  /\ pointer = NULL /\ returned = NULL
  /\ renaming = NoRename
  /\ SideIdle

\* mousemove during the drag, with the pointer at targetX: the dragged node
\* is moved to the position findNonOverlappingPosition returns
PlaceDragged(targetX, dir) ==
  /\ CanStep
  /\ targetX \in PointerAt /\ dir \in {-1, 1}
  /\ LET i == FindNode(nodes, dragStart.nodeId)
         newPos == findNonOverlappingPosition(nodes, nodeRadii, targetX,
                                              dragStart.nodeId, dir, 1)
     IN  /\ nodes' = [nodes EXCEPT ![i].x = newPos]
         /\ returned' = newPos
  /\ pointer' = targetX
  /\ ContinueAction("mousemove")
  /\ UNCHANGED <<edges, tasksCache, passVars, walkVars, fileWatchers,
                 gestureVars, nodeRadii, renaming, sideVars>>
  /\ NoRecord
  /\ MovedInPlace

\* getNodeHit(e) with the pointer at px
HitTest(px) ==
  /\ CanStep
  /\ px \in PointerAt \cup {nodes[i].x : i \in 1..Len(nodes)}
  /\ returned' = getNodeAtWorld(nodes, nodeRadii, px, 1)
  /\ pointer' = px
  /\ Interrupt("hitTest")
  /\ UNCHANGED <<graphVars, passVars, walkVars, fileWatchers, gestureVars,
                 nodeRadii, renaming, sideVars>>
  /\ NoRecord
  /\ NoSave

PlaceNext ==
  \/ \E targetX \in PointerAt, dir \in {-1, 1} : PlaceDragged(targetX, dir)
  \/ \E px \in PointerAt \cup Coordinates : HitTest(px)

PlaceSpec == PlaceInit /\ [][PlaceNext]_vars

\* the nodes other than the dragged one
OtherNodes == {i \in 1..Len(nodes) : nodes[i].id # dragStart.nodeId}

\* C25: the position findNonOverlappingPosition returns for the dragged
\* node is at least the radius of the dragged node plus the radius of the
\* other node plus the margin of 20 away from every other node
C25_NoOverlapAfterPlacing ==
  lastOp = "mousemove"
    => \A k \in OtherNodes :
         Abs(returned - nodes[k].x)
           >= MinDistance(nodeRadii, dragStart.nodeId, nodes[k].id)

\* the returned position is the target when the target collides with no
\* node, and otherwise is exactly the minimum distance away from the first
\* node of the list that the target collides with
C25_ClearOfFirstCollision ==
  lastOp = "mousemove"
    => LET hit == {k \in OtherNodes :
                    Collides(nodes, nodeRadii, pointer, dragStart.nodeId, k)}
       IN  IF hit = {} THEN returned = pointer
           ELSE \E k \in hit :
                  /\ \A j \in hit : k <= j
                  /\ Abs(returned - nodes[k].x)
                       = MinDistance(nodeRadii, dragStart.nodeId, nodes[k].id)

\* the dragged node was pushed away from one node onto another
C25_Witness ==
  /\ lastOp = "mousemove"
  /\ returned # pointer
  /\ \E k \in OtherNodes : Abs(returned - nodes[k].x) < RadiusOf(nodeRadii, nodes[k].id)

\* C26: the hit test at the centre of a node returns that node, whatever
\* its shape and wherever the other nodes are
C26_CentreHitsNode ==
  lastOp = "hitTest"
    => \A i \in 1..Len(nodes) : nodes[i].x = pointer => returned = nodes[i].id

\* the hit test at the centre of a node returns a node that the point hits,
\* and returns the node itself when no node before it in the list is hit
C26_CentreHitsFirstCover ==
  lastOp = "hitTest"
    => \A i \in 1..Len(nodes) :
         nodes[i].x = pointer
           => /\ returned # NULL
              /\ Hits(nodes[FindNode(nodes, returned)],
                      RadiusOf(nodeRadii, returned), pointer)
              /\ (\A j \in 1..(i - 1) :
                    ~Hits(nodes[j], RadiusOf(nodeRadii, nodes[j].id), pointer))
                   => returned = nodes[i].id

\* the hit test at the centre of a node returned another node, which lies
\* on top of it
C26_Witness ==
  /\ lastOp = "hitTest"
  /\ \E i \in 1..Len(nodes), j \in 1..Len(nodes) :
       /\ i # j
       /\ nodes[i].x = pointer /\ nodes[j].x = pointer
       /\ returned = nodes[j].id

(***************************************************************************)
(* PointerSpec: the mousedown and mouseup handlers with every hit test, on *)
(* a tree with an edge and a node whose linked document holds a task.  The *)
(* hit tests are inputs: the handler is told what each of them returns.    *)
(***************************************************************************)
\* mutant of FirstHit: the node body is tested before the edges, the check
\* box and the handles
FirstHit_BodyBeforeEdges(h, onTaskCheckbox) ==
  IF onTaskCheckbox THEN "taskCheckbox"
  ELSE IF h.taskNode # NoTask THEN "taskNode"
  ELSE IF h.node # NULL THEN "node"
  ELSE IF h.edgeEndpoint # NoEndpoint THEN "edgeEndpoint"
  ELSE IF h.edgeBody # NoEndpoint THEN "edgeBody"
  ELSE IF h.checkbox # NULL THEN "checkbox"
  ELSE IF h.handle # NULL THEN "handle"
  ELSE "none"

\* mutant of FirstHit: the task markers are tested after the node body
FirstHit_TasksLast(h, onTaskCheckbox) ==
  IF h.edgeEndpoint # NoEndpoint THEN "edgeEndpoint"
  ELSE IF h.edgeBody # NoEndpoint THEN "edgeBody"
  ELSE IF h.checkbox # NULL THEN "checkbox"
  ELSE IF h.handle # NULL THEN "handle"
  ELSE IF h.node # NULL THEN "node"
  ELSE IF onTaskCheckbox THEN "taskCheckbox"
  ELSE IF h.taskNode # NoTask THEN "taskNode"
  ELSE "none"

\* the mousedown handler for the left button: the hit test whose branch
\* runs, in the order of the tests and their returns
FirstHit(h, onTaskCheckbox) ==
  IF onTaskCheckbox THEN "taskCheckbox"
  ELSE IF h.taskNode # NoTask THEN "taskNode"
  ELSE IF h.edgeEndpoint # NoEndpoint THEN "edgeEndpoint"
  ELSE IF h.edgeBody # NoEndpoint THEN "edgeBody"
  ELSE IF h.checkbox # NULL THEN "checkbox"
  ELSE IF h.handle # NULL THEN "handle"
  ELSE IF h.node # NULL THEN "node"
  ELSE "none"

\* the left button, and a button that pans (the middle or the right one)
Buttons == {0, 1}

\* what getTaskNodeAtWorld can return: a marker of a node that has tasks
TaskMarkers ==
  {[nodeId |-> nodes[i].id, taskIndex |-> k] :
     i \in 1..Len(nodes), k \in 1..MaxTasks} \cap
  {m \in [nodeId : NodeIdsOf(nodes), taskIndex : 1..MaxTasks] :
     m.taskIndex <= Len(TasksOf(tasksCache, m.nodeId))}

\* what getEdgeEndpointAtWorld can return for the first edge: an end that is
\* at a node
EdgeEnds ==
  {[edgeId |-> edges[k].id, which |-> w] : k \in 1..Len(edges) \cap {1},
                                            w \in {"from", "to"}} \cap
  {e \in [edgeId : {edges[k].id : k \in 1..Len(edges)}, which : {"from", "to"}] :
     FindNode(nodes, edges[FindEdge(edges, e.edgeId)][e.which]) # 0}

\* what getEdgeAtWorld can return for the first edge, whose ends are both at
\* nodes: the end that is nearer to the pointer
EdgeBodies ==
  {e \in EdgeEnds :
     /\ FindNode(nodes, edges[FindEdge(edges, e.edgeId)].from) # 0
     /\ FindNode(nodes, edges[FindEdge(edges, e.edgeId)].to) # 0}

\* what getCheckboxAtWorld can return: an in-progress node without tasks
CheckboxNodes ==
  {nodes[i].id : i \in {j \in 1..Len(nodes) :
     nodes[j].state = InProgress /\ Len(TasksOf(tasksCache, nodes[j].id)) = 0}}

\* the answers of the hit tests at the points of the canvas that are
\* explored: the handles are those of the first node
PointerHits ==
  [taskCheckbox : BOOLEAN,
   taskNode : {NoTask} \cup TaskMarkers,
   edgeEndpoint : {NoEndpoint} \cup {e \in EdgeEnds : e.which = "to"},
   edgeBody : {NoEndpoint} \cup {e \in EdgeBodies : e.which = "from"},
   checkbox : {NULL} \cup CheckboxNodes,
   handle : {NULL} \cup {nodes[i].id : i \in 1..Len(nodes) \cap {1}},
   node : {NULL} \cup NodeIdsOf(nodes),
   shiftKey : BOOLEAN]

\* the mousedown handler, with the button pressed and the answers h of the
\* hit tests at the pointer
MouseDown(button, h) ==
  /\ CanStep
  /\ ~buttonDown
  /\ button \in Buttons /\ h \in PointerHits
  /\ UNCHANGED <<edges, tasksCache>>
  /\ LET kept == button # 0 \/ h.taskNode # NoTask
         sel == IF kept THEN selectedTask ELSE NoTask
         selNode == IF kept THEN selectedNodeId ELSE NULL
         first == IF button # 0 THEN "pan"
                  ELSE FirstHit(h, getTaskCheckboxAtWorld(nodes, tasksCache, sel,
                                                          h.taskCheckbox))
     IN  /\ isPanning' = (isPanning \/ first = "pan")
         /\ selectedTask' = IF first = "taskNode" THEN h.taskNode
                            ELSE IF first = "node" THEN NoTask
                            ELSE sel
         /\ selectedNodeId' = IF first = "taskNode" THEN h.taskNode.nodeId
                              ELSE IF first = "handle" THEN h.handle
                              ELSE IF first = "node" THEN h.node
                              ELSE selNode
         /\ draggingEdgeEndpoint' = IF first = "edgeEndpoint" THEN h.edgeEndpoint
                                    ELSE IF first = "edgeBody" THEN h.edgeBody
                                    ELSE draggingEdgeEndpoint
         /\ creatingEdgeFrom' = IF first = "handle" THEN h.handle
                                ELSE IF first = "node" /\ h.shiftKey THEN h.node
                                ELSE creatingEdgeFrom
         /\ dragStart' = IF first = "node" /\ ~h.shiftKey
                         THEN [nodeId |-> h.node,
                               x |-> nodes[FindNode(nodes, h.node)].x]
                         ELSE dragStart
         /\ nodes' = IF first = "checkbox"
                     THEN applyConnectionStateRules(
                            SetState(nodes, h.checkbox, Complete), edges, tasksCache)
                     ELSE nodes
         /\ IF first \in {"edgeEndpoint", "edgeBody", "checkbox", "handle", "node"}
            THEN Record(nodes, edges)
            ELSE NoRecord
         /\ IF first = "checkbox" THEN Save ELSE NoSave
  /\ under' = IF button # 0 THEN NoHits ELSE h
  /\ buttonDown' = TRUE
  /\ StartAction(IF button # 0 THEN "mousedownPan" ELSE "mousedown")
  /\ UNCHANGED <<passVars, walkVars, hitVars, renaming, docVars, watchVars,
                 fileWatchers, edgesChanged, nextId>>

\* a view whose tree has the edge 4 from node 1 to node 2 and the node 3,
\* which is linked to a document with one open task; the tree is saved
PointerInit ==
  /\ edges = <<Edge(4, 1, 2)>>
  /\ tasksCache = Put(<<>>, 3, <<FALSE>>)
  /\ nodes = applyConnectionStateRules(
               <<Node(1, Unavailable, 0), Node(2, Unavailable, 0),
                 [Node(3, Unavailable, 0) EXCEPT !.fileLink = Note]>>,
               edges, tasksCache)
  /\ passes = 0 /\ before = <<>>
  /\ edgeIdx = 0 /\ callStack = <<>> /\ visited = {} /\ visitCount = <<>>
  /\ fileWatchers = Put(<<>>, 3, Live)
  /\ trees = Put(<<>>, DefaultTree, getSnapshot(nodes, edges))
  /\ currentTreeName = DefaultTree /\ shared = FALSE
  /\ historyPast = <<>> /\ historyFuture = <<>>
  /\ dragStart = NoDrag /\ creatingEdgeFrom = NULL /\ draggingEdgeEndpoint = NoEndpoint
  /\ selectedNodeId = NULL /\ edgesChanged = FALSE /\ buttonDown = FALSE
  /\ nextId = 5
  /\ steps = PointerSteps /\ run = 0
  /\ lastOp = "open" /\ pre = Graph /\ interleaved = FALSE
  /\ phase = "none" /\ recPre = NoGraph /\ post = NoGraph
  /\ imported = NoGraph /\ preLens = <<0, 0>>
  /\ HitIdle
  /\ renaming = NoRename
  /\ SideIdle

PointerNext ==
  \/ \E button \in Buttons, h \in PointerHits : MouseDown(button, h)
  \/ \E t \in NodeIdsOf(nodes) \cup {NULL}, onCheckbox \in BOOLEAN,
        onTask \in {NoTask} \cup TaskMarkers :
       MouseUpAt(t, onCheckbox, onTask)
  \/ \E px \in Positions : MouseMoveDrag(px)

PointerSpec == PointerInit /\ [][PointerNext]_vars

\* the gestures and the graph that a mousedown can start or change
NoGestureStarts == UNCHANGED <<dragStart, creatingEdgeFrom, draggingEdgeEndpoint>>

\* C31: on a left mousedown the hit tests decide in the order task check box,
\* task marker, edge endpoint, edge body, check box of a node, connection
\* handle, node body: the branch of the first test that hits runs, and
\* nothing is done for a target of a later test that is under the pointer too
\* (no node drag, no edge creation, no endpoint drag, no state change)
C31_HitPriority ==
  [][(steps' # steps /\ lastOp' = "mousedown") =>
       LET h == under'
           sel == IF h.taskNode # NoTask THEN selectedTask ELSE NoTask
           onBox == getTaskCheckboxAtWorld(nodes, tasksCache, sel, h.taskCheckbox)
           onMarker == h.taskNode # NoTask
           onEnd == h.edgeEndpoint # NoEndpoint
           onBody == h.edgeBody # NoEndpoint
           onCheck == h.checkbox # NULL
           onHandle == h.handle # NULL
           onNode == h.node # NULL
       IN  /\ onBox => /\ NoGestureStarts
                       /\ UNCHANGED <<nodes, edges, historyVars, selectedTask>>
           /\ (~onBox /\ onMarker)
                => /\ selectedTask' = h.taskNode
                   /\ NoGestureStarts
                   /\ UNCHANGED <<nodes, edges, historyVars>>
           /\ (~onBox /\ ~onMarker /\ onEnd)
                => /\ draggingEdgeEndpoint' = h.edgeEndpoint
                   /\ UNCHANGED <<nodes, edges, dragStart, creatingEdgeFrom>>
           /\ (~onBox /\ ~onMarker /\ ~onEnd /\ onBody)
                => /\ draggingEdgeEndpoint' = h.edgeBody
                   /\ UNCHANGED <<nodes, edges, dragStart, creatingEdgeFrom>>
           /\ (~onBox /\ ~onMarker /\ ~onEnd /\ ~onBody /\ onCheck)
                => /\ StateOf(nodes', h.checkbox) = Complete
                   /\ NoGestureStarts
                   /\ UNCHANGED edges
           /\ (~onBox /\ ~onMarker /\ ~onEnd /\ ~onBody /\ ~onCheck /\ onHandle)
                => /\ creatingEdgeFrom' = h.handle
                   /\ UNCHANGED <<nodes, edges, dragStart, draggingEdgeEndpoint>>
           /\ (~onBox /\ ~onMarker /\ ~onEnd /\ ~onBody /\ ~onCheck /\ ~onHandle
               /\ onNode)
                => /\ IF h.shiftKey
                      THEN creatingEdgeFrom' = h.node /\ UNCHANGED dragStart
                      ELSE dragStart'.nodeId = h.node /\ UNCHANGED creatingEdgeFrom
                   /\ UNCHANGED <<nodes, edges, draggingEdgeEndpoint>>]_vars

\* a task marker was selected, and the next mousedown was on its check box
\* at a point where an edge endpoint, a handle and a node body are as well:
\* no gesture has started
C31_Witness ==
  /\ lastOp = "mousedown"
  /\ selectedTask # NoTask /\ under.taskCheckbox /\ under.taskNode # NoTask
  /\ under.edgeEndpoint # NoEndpoint /\ under.handle # NULL /\ under.node # NULL
  /\ dragStart = NoDrag /\ creatingEdgeFrom = NULL
  /\ draggingEdgeEndpoint = NoEndpoint
  /\ historyPast = <<>>

\* the steps that are a whole mouseup handler
MouseUpOps == {"mouseup", "mouseupRejected", "mouseupTask", "mouseupTaskCheckbox"}

\* the number of gesture modes that are active
ActiveGestures ==
  (IF dragStart # NoDrag THEN 1 ELSE 0) + (IF creatingEdgeFrom # NULL THEN 1 ELSE 0)
  + (IF draggingEdgeEndpoint # NoEndpoint THEN 1 ELSE 0) + (IF isPanning THEN 1 ELSE 0)

\* C37: after every mouseup no gesture is in progress, whatever the pointer
\* was released over (_dragStart, creatingEdgeFrom and draggingEdgeEndpoint
\* are null and the pan has ended), and at any time at most one gesture mode
\* is active
C37_NoGestureAfterMouseUp ==
  /\ lastOp \in MouseUpOps =>
       /\ dragStart = NoDrag
       /\ creatingEdgeFrom = NULL
       /\ draggingEdgeEndpoint = NoEndpoint
       /\ ~isPanning
  /\ ActiveGestures <= 1

\* a mouseup over a task marker has been handled and the edge that was being
\* drawn is still being drawn
C37_Witness ==
  /\ lastOp = "mouseupTask"
  /\ ~buttonDown
  /\ creatingEdgeFrom # NULL

(***************************************************************************)
(* ParseSpec: getTasksFromFile on any document of up to MaxLines lines.    *)
(* The Tasks plugin is not installed, so the tasks are those the manual    *)
(* parse finds.  Indices count from 1, and NULL stands for parentIndex     *)
(* null.                                                                   *)
(***************************************************************************)
\* the white space a task line can start with: spaces and tabs
IndentChars == {" ", "\t"}

IndentStrings == SeqsUpTo(IndentChars, MaxIndentChars)

\* a line that none of the three patterns matches
TextLine == [task |-> FALSE, indentStr |-> <<>>, mark |-> " "]

\* a line that a pattern matches: white space, "-" or "*", "[ ]" or "[x]",
\* and a text
TaskLine(indentStr, mark) == [task |-> TRUE, indentStr |-> indentStr, mark |-> mark]

Lines ==
  {TextLine} \cup {TaskLine(ind, mark) : ind \in IndentStrings, mark \in {" ", "x"}}

Documents == SeqsUpTo(Lines, MaxLines)

\* the indentation loop: a tab counts 2, a space 1
RECURSIVE IndentOf(_, _)
IndentOf(indentStr, k) ==
  IF k > Len(indentStr) THEN 0
  ELSE (IF indentStr[k] = "\t" THEN 2 ELSE IF indentStr[k] = " " THEN 1 ELSE 0)
       + IndentOf(indentStr, k + 1)

\* first pass: the task lines from line i on, appended to the tasks found
RECURSIVE FirstPass(_, _, _)
FirstPass(lines, i, tasks) ==
  IF i > Len(lines) THEN tasks
  ELSE FirstPass(lines, i + 1,
         IF lines[i].task
         THEN Append(tasks, [id |-> Len(tasks) + 1,
                             completed |-> (lines[i].mark = "x"),
                             line |-> i,
                             indent |-> IndentOf(lines[i].indentStr, 1),
                             parentIndex |-> NULL,
                             children |-> <<>>])
         ELSE tasks)

\* mutant of LookBack: a task with the same indentation is taken as parent
RECURSIVE LookBack_SameIndent(_, _, _)
LookBack_SameIndent(tasks, i, j) ==
  IF j < 1 THEN NULL
  ELSE IF tasks[j].indent <= tasks[i].indent THEN j
  ELSE LookBack_SameIndent(tasks, i, j - 1)

\* second pass, inner loop: from task j backwards, the first task with less
\* indentation than task i
RECURSIVE LookBack(_, _, _)
LookBack(tasks, i, j) ==
  IF j < 1 THEN NULL
  ELSE IF tasks[j].indent < tasks[i].indent THEN j
  ELSE LookBack(tasks, i, j - 1)

\* second pass, outer loop from task i on
RECURSIVE SecondPass(_, _)
SecondPass(tasks, i) ==
  IF i > Len(tasks) THEN tasks
  ELSE LET j == LookBack(tasks, i, i - 1)
       IN  SecondPass(IF j = NULL THEN tasks
                      ELSE [tasks EXCEPT ![i].parentIndex = j,
                                         ![j].children = Append(@, i)],
                      i + 1)

\* getTasksFromFile(filePath) for a document with these lines
getTasksFromFile(lines) == SecondPass(FirstPass(lines, 1, <<>>), 1)

\* task.completed of every task, as the task cache of the view holds them
CompletedOf(tasks) == [k \in 1..Len(tasks) |-> tasks[k].completed]

ParseInit ==
  /\ nodes = defaultNodes /\ edges = <<>>
  /\ tasksCache = <<>>
  /\ passes = 0 /\ before = <<>>
  /\ edgeIdx = 0 /\ callStack = <<>> /\ visited = {} /\ visitCount = <<>>
  /\ fileWatchers = <<>>
  /\ OpenedNew
  /\ historyPast = <<>> /\ historyFuture = <<>>
  /\ dragStart = NoDrag /\ creatingEdgeFrom = NULL /\ draggingEdgeEndpoint = NoEndpoint
  /\ selectedNodeId = NULL /\ edgesChanged = FALSE /\ buttonDown = FALSE
  /\ nextId = 3
  /\ steps = 1 /\ run = 0
  /\ lastOp = "open" /\ pre = Graph /\ interleaved = FALSE
  /\ phase = "none" /\ recPre = NoGraph /\ post = NoGraph
  /\ imported = NoGraph /\ preLens = <<0, 0>>
  /\ HitIdle
  /\ renaming = NoRename
  /\ selectedTask = NoTask /\ isPanning = FALSE /\ under = NoHits
  /\ document \in Documents /\ fileTasks = <<>>
  /\ clock = 0 /\ lastUpdateTime = 0 /\ handlers = <<>>

\* getTasksFromFile reads the document
ReadTasks ==
  /\ CanStep
  /\ fileTasks' = getTasksFromFile(document)
  /\ Interrupt("getTasksFromFile")
  /\ UNCHANGED <<graphVars, passVars, walkVars, hitVars, renaming, markVars,
                 document, watchVars, fileWatchers, gestureVars>>
  /\ NoRecord
  /\ NoSave

ParseNext == ReadTasks

ParseSpec == ParseInit /\ [][ParseNext]_vars

\* the tasks before task i that have less indentation than task i
LessIndented(tasks, i) == {j \in 1..(i - 1) : tasks[j].indent < tasks[i].indent}

\* the largest number of a non-empty set of numbers
Greatest(S) == CHOOSE j \in S : \A k \in S : k <= j

\* the numbers of a list, each as often as it is in the list
Occurrences(q, v) == Cardinality({k \in 1..Len(q) : q[k] = v})

\* C32: in every parsed task list the parent of a task is the nearest task
\* before it with strictly less indentation (none when there is none), the
\* parent comes before the task, and task i is among the children of task p
\* exactly when p is the parent of i, so that the tasks form a forest
C32_TasksFormForest ==
  lastOp = "getTasksFromFile" =>
    \A i \in 1..Len(fileTasks) :
      /\ fileTasks[i].parentIndex =
           IF LessIndented(fileTasks, i) = {} THEN NULL
           ELSE Greatest(LessIndented(fileTasks, i))
      /\ fileTasks[i].parentIndex < i
      /\ \A p \in 1..Len(fileTasks) :
           /\ Occurrences(fileTasks[p].children, i) =
                IF fileTasks[i].parentIndex = p THEN 1 ELSE 0

\* a parsed document in which a task has a parent that is not the task just
\* before it, and a task indented by a tab is the child of one indented by a
\* space
C32_Witness ==
  /\ lastOp = "getTasksFromFile"
  /\ \E i \in 1..Len(fileTasks) :
       /\ fileTasks[i].parentIndex # NULL
       /\ fileTasks[i].parentIndex < i - 1
       /\ fileTasks[i - 1].indent > fileTasks[i].indent
  /\ \E i \in 1..Len(fileTasks) :
       /\ fileTasks[i].indent = 2
       /\ fileTasks[i].parentIndex # NULL
       /\ fileTasks[fileTasks[i].parentIndex].indent = 1
  /\ \E k \in 1..Len(document) : ~document[k].task

(***************************************************************************)
(* WatchSpec: the watcher that getNodeTasks creates for a node with a      *)
(* linked document, while the document is edited.  Time is counted in      *)
(* milliseconds and advances by TickMs.  A run of updateNodeFromFile is a  *)
(* record of `handlers`: it waits, reads the document and writes the cache *)
(* in separate steps, since it awaits a timer and the read.  The tree      *)
(* holds the watched node and no edge.                                     *)
(***************************************************************************)
\* the node whose document is watched
WatchedNode == 3

\* the contents of the watched document: no task, an open task, a done task
WatchDocuments == {<<>>, <<TaskLine(<<>>, " ")>>, <<TaskLine(<<>>, "x")>>}

\* the metadataCache 'changed' event of an edit, not yet delivered
ChangedEvent == [stage |-> "changed", wakeAt |-> 0, tasks |-> <<>>]

\* a run that a 'modify' event started at the time now: it awaits the timer
WaitingRun(now) == [stage |-> "wait", wakeAt |-> now + ModifyWaitMs, tasks |-> <<>>]

\* the handlers without the one at index k
WithoutHandler(q, k) == SubSeq(q, 1, k - 1) \o SubSeq(q, k + 1, Len(q))

\* "if (now - lastUpdateTime < UPDATE_DEBOUNCE_MS) return"
Debounced(now, last) == now - last < UPDATE_DEBOUNCE_MS

\* what getTasksFromFile gives for the document as it is now
TasksInDocument == CompletedOf(getTasksFromFile(document))

WatchInit ==
  /\ document \in WatchDocuments
  /\ edges = <<>>
  /\ tasksCache = Put(<<>>, WatchedNode, TasksInDocument)
  /\ nodes = applyConnectionStateRules(
               <<[Node(WatchedNode,
                       IF AllTasksComplete(tasksCache, WatchedNode)
                       THEN Complete ELSE Unavailable, 0)
                    EXCEPT !.fileLink = Note]>>,
               edges, tasksCache)
  /\ passes = 0 /\ before = <<>>
  /\ edgeIdx = 0 /\ callStack = <<>> /\ visited = {} /\ visitCount = <<>>
  /\ fileWatchers = Put(<<>>, WatchedNode, Live)
  /\ trees = Put(<<>>, DefaultTree, getSnapshot(nodes, edges))
  /\ currentTreeName = DefaultTree /\ shared = FALSE
  /\ historyPast = <<>> /\ historyFuture = <<>>
  /\ dragStart = NoDrag /\ creatingEdgeFrom = NULL /\ draggingEdgeEndpoint = NoEndpoint
  /\ selectedNodeId = NULL /\ edgesChanged = FALSE /\ buttonDown = FALSE
  /\ nextId = 5
  /\ steps = WatchSteps /\ run = 0
  /\ lastOp = "open" /\ pre = Graph /\ interleaved = FALSE
  /\ phase = "none" /\ recPre = NoGraph /\ post = NoGraph
  /\ imported = NoGraph /\ preLens = <<0, 0>>
  /\ HitIdle
  /\ renaming = NoRename
  /\ selectedTask = NoTask /\ isPanning = FALSE /\ under = NoHits
  /\ fileTasks = <<>>
  /\ clock = UPDATE_DEBOUNCE_MS /\ lastUpdateTime = 0 /\ handlers = <<>>

\* a step of a run of updateNodeFromFile after an await, or of the clock
Background(op) ==
  /\ lastOp' = op
  /\ UNCHANGED <<steps, run, pre, interleaved, imported, preLens>>

\* what a step of the watcher leaves alone besides the graph and the cache
WatchFrame ==
  UNCHANGED <<passVars, walkVars, hitVars, renaming, markVars, fileTasks,
              fileWatchers, gestureVars>>

\* the document is edited to doc: the vault delivers 'modify' at once, and
\* updateNodeFromFile runs up to its first await; the metadata cache will
\* deliver 'changed' later
ModifyDocument(doc) ==
  /\ CanStep
  /\ doc \in WatchDocuments /\ doc # document
  /\ clock + ModifyWaitMs <= MaxClock
  /\ document' = doc
  /\ IF Debounced(clock, lastUpdateTime)
     THEN /\ lastUpdateTime' = lastUpdateTime
          /\ handlers' = Append(handlers, ChangedEvent)
     ELSE /\ lastUpdateTime' = clock
          /\ handlers' = handlers \o <<WaitingRun(clock), ChangedEvent>>
  /\ clock' = clock
  /\ UNCHANGED graphVars
  /\ WatchFrame
  /\ Interrupt("modify")
  /\ NoRecord
  /\ NoSave

\* the metadata cache delivers the 'changed' event at index k:
\* updateNodeFromFile runs up to its first await
MetadataChanged(k) ==
  /\ k \in 1..Len(handlers) /\ handlers[k].stage = "changed"
  /\ IF Debounced(clock, lastUpdateTime)
     THEN /\ lastUpdateTime' = lastUpdateTime
          /\ handlers' = WithoutHandler(handlers, k)
     ELSE /\ lastUpdateTime' = clock
          /\ handlers' = [handlers EXCEPT ![k].stage = "read"]
  /\ UNCHANGED <<graphVars, document, clock>>
  /\ WatchFrame
  /\ Background("changed")
  /\ NoRecord
  /\ NoSave

\* the timer of the run at index k fires
TimerFires(k) ==
  /\ k \in 1..Len(handlers) /\ handlers[k].stage = "wait"
  /\ clock >= handlers[k].wakeAt
  /\ handlers' = [handlers EXCEPT ![k].stage = "read"]
  /\ UNCHANGED <<graphVars, document, clock, lastUpdateTime>>
  /\ WatchFrame
  /\ Background("timer")
  /\ NoRecord
  /\ NoSave

\* getTasksFromFile of the run at index k reads the document
ReadDocument(k) ==
  /\ k \in 1..Len(handlers) /\ handlers[k].stage = "read"
  /\ handlers' = [handlers EXCEPT ![k].stage = "write", ![k].tasks = TasksInDocument]
  /\ UNCHANGED <<graphVars, document, clock, lastUpdateTime>>
  /\ WatchFrame
  /\ Background("read")
  /\ NoRecord
  /\ NoSave

\* the read of the run at index k has finished: the rest of
\* updateNodeFromFile sets the cache entry, runs updateNodeStateFromTasks and
\* saves
WriteCache(k) ==
  /\ k \in 1..Len(handlers) /\ handlers[k].stage = "write"
  /\ LET tc == Put(tasksCache, WatchedNode, handlers[k].tasks)
     IN  /\ tasksCache' = tc
         /\ nodes' = IF CompletedByTasks(tc, WatchedNode, StateOf(nodes, WatchedNode))
                     THEN applyConnectionStateRules(
                            SetState(nodes, WatchedNode, Complete), edges, tc)
                     ELSE nodes
  /\ handlers' = WithoutHandler(handlers, k)
  /\ UNCHANGED <<edges, document, clock, lastUpdateTime>>
  /\ WatchFrame
  /\ Background("loadTasks")
  /\ NoRecord
  /\ Save

\* TickMs milliseconds pass
Tick ==
  /\ clock < MaxClock
  /\ clock' = clock + TickMs
  /\ UNCHANGED <<graphVars, document, lastUpdateTime, handlers, traceVars,
                 historyVars, settingsVars>>
  /\ WatchFrame

\* a step of a run of updateNodeFromFile
HandlerStep ==
  \/ \E k \in 1..Len(handlers) : MetadataChanged(k)
  \/ \E k \in 1..Len(handlers) : TimerFires(k)
  \/ \E k \in 1..Len(handlers) : ReadDocument(k)
  \/ \E k \in 1..Len(handlers) : WriteCache(k)

WatchNext ==
  \/ \E doc \in WatchDocuments : ModifyDocument(doc)
  \/ HandlerStep
  \/ Tick

WatchSpec == WatchInit /\ [][WatchNext]_vars

\* every event is delivered, every timer fires, every read finishes, and
\* time passes
WatchFairSpec == WatchSpec /\ WF_vars(HandlerStep) /\ WF_vars(Tick)

\* the cache entry of the watched node holds the tasks of the document
CacheIsCurrent == TasksOf(tasksCache, WatchedNode) = TasksInDocument

\* C33: once the changes of the document have stopped and every event and
\* read in flight has been handled, the cache entry of the node holds the
\* tasks parsed from the final content of the document, and stays so
C33_EventualConsistency == <>[]CacheIsCurrent

\* no event is waiting and no run of updateNodeFromFile is in flight, the
\* document has changed, and the cache entry holds the tasks of an earlier
\* content
C33_Witness ==
  /\ handlers = <<>>
  /\ steps < WatchSteps
  /\ ~CacheIsCurrent

(***************************************************************************)
(* HistorySpec: the history stacks under recorded drags of the first node, *)
(* undo and redo, starting from a newly opened tree.                       *)
(***************************************************************************)
\* the graph of a newly opened tree with its first node at position px
GraphAt(px) == [nodes |-> [defaultNodes EXCEPT ![1].x = px], edges |-> <<>>]

HistoryInit ==
  /\ nodes = defaultNodes /\ edges = <<>>
  /\ tasksCache = <<>>
  /\ passes = 0 /\ before = <<>>
  /\ edgeIdx = 0 /\ callStack = <<>> /\ visited = {} /\ visitCount = <<>>
  /\ fileWatchers = <<>>
  /\ OpenedNew
  /\ ViewIdle

\* a drag of the first node one position to the right: mousedown on the node
\* records the snapshot, mousemove moves the node, mouseup ends the gesture
HistoryDrag ==
  /\ nodes[1].x < MaxRecords
  /\ historyPast' = PastAfterRecord(historyPast, nodes, edges)
  /\ historyFuture' = <<>>
  /\ nodes' = [nodes EXCEPT ![1].x = nodes[1].x + 1]
  /\ run' = run + 1
  /\ UNCHANGED <<edges, tasksCache, passVars, walkVars, hitVars, renaming, sideVars, fileWatchers, gestureVars, steps,
                 lastOp, pre, interleaved, phase, recPre, post,
                 imported, preLens>>
  /\ Save

\* Ctrl+Z
HistoryUndo ==
  /\ Len(historyPast) > 0 /\ Len(historyFuture) < MaxFuture
  /\ LET u == undo(historyPast, historyFuture, nodes, edges)
     IN  /\ historyPast' = u.past
         /\ historyFuture' = u.future
         /\ nodes' = u.nodes
         /\ edges' = u.edges
  /\ run' = 0
  /\ fileWatchers' = DetachWatchers(fileWatchers, nodes, NodeIdsOf(nodes))
  /\ UNCHANGED <<tasksCache, passVars, walkVars, hitVars, renaming, sideVars, gestureVars, steps,
                 lastOp, pre, interleaved, phase, recPre, post,
                 imported, preLens>>
  /\ Save

\* Ctrl+Y
HistoryRedo ==
  /\ Len(historyFuture) > 0
  /\ LET r == redo(historyPast, historyFuture, nodes, edges)
     IN  /\ historyPast' = r.past
         /\ historyFuture' = r.future
         /\ nodes' = r.nodes
         /\ edges' = r.edges
  /\ run' = 0
  /\ fileWatchers' = DetachWatchers(fileWatchers, nodes, NodeIdsOf(nodes))
  /\ UNCHANGED <<tasksCache, passVars, walkVars, hitVars, renaming, sideVars, gestureVars, steps,
                 lastOp, pre, interleaved, phase, recPre, post,
                 imported, preLens>>
  /\ Save

HistoryNext == HistoryDrag \/ HistoryUndo \/ HistoryRedo

HistorySpec == HistoryInit /\ [][HistoryNext]_vars

\* the smaller of two numbers
Min(a, b) == IF a < b THEN a ELSE b

\* C10: the past stack never holds more than 100 snapshots, and after run
\* consecutive records its last min(run, 100) entries are the snapshots of
\* the most recent records, oldest first; after 150 consecutive records
\* these are exactly the 100 most recent ones
C10_HistoryBound ==
  /\ Len(historyPast) <= HistoryLimit
  /\ Len(historyPast) >= Min(run, HistoryLimit)
  /\ \A i \in 1..Len(historyPast) :
       i > Len(historyPast) - run
         => historyPast[i] = GraphAt(nodes[1].x - (Len(historyPast) - i) - 1)

\* 150 consecutive records have left the snapshots of the positions 50..149
C10_Witness ==
  /\ run = 150
  /\ Len(historyPast) = HistoryLimit
  /\ historyPast[1] = GraphAt(50) /\ historyPast[HistoryLimit] = GraphAt(149)
  /\ historyFuture = <<>>
====
